---- MODULE Spec2Model ----
(***************************************************************************)
(* Model of go-veap: the batched exchange service (BasicMetaService),      *)
(* the wire codec (package encoding) and the HTTP dispatcher               *)
(* (server.Handler.ServeHTTP).                                             *)
(*                                                                         *)
(* Three specifications share the variables of this module:                *)
(*   SpecExg    one ExgData batch after the other against a backend that   *)
(*              stores PVs, one backend call per step                      *)
(*   SpecCodec  the codec functions applied to inputs drawn from bounded   *)
(*              sets                                                       *)
(*   SpecHttp   one HTTP request after the other through ServeHTTP         *)
(***************************************************************************)
EXTENDS Integers, Sequences, FiniteSets, TLC

VARIABLES
    \* ---- SpecExg
    exgReq,         \* the WireExgDataParams of the batch, as the client sent them
    exgPc,          \* position of the batch: idle, write, read, returned, replied
    exgI,           \* loop index i of the loop the batch is in
    vars,           \* the backend's store: path -> PV
    writePVs,       \* ExgData argument
    readPaths,      \* ExgData argument
    writeErrors,    \* ExgData result
    readResults,    \* ExgData result
    serviceError,   \* ExgData result
    calls,          \* backend calls issued by the batch, in order
    exgResp,        \* the HTTP response of serveExgData / ServeHTTP
    exgClient,      \* what Client.ExgData returned for the response it received
    \* ---- SpecCodec
    codecOp,        \* the codec function applied last
    codecIn,        \* its argument
    codecOut,       \* its result
    \* ---- SpecHttp
    request,        \* the request ServeHTTP handled last
    response,       \* its response
    backend,        \* the service calls it made, in order, with what they returned
    action,         \* the serve function the dispatcher selected
    handler,        \* the Handler: URLPrefix, the limits, the kind of its Service
    \* ---- SpecStats
    stats,          \* Handler.Stats: the four counters
    serving,        \* the goroutines in ServeHTTP: position and request of each
    \* ---- SpecMeta
    metaOp,         \* the function of BasicMetaService called last
    metaIn,         \* its arguments and the backend it ran on
    metaOut,        \* its results
    \* ---- SpecClient
    clientOp,       \* the operation of the Client called last
    clientIn,       \* its client, and the response or the instants it got
    clientOut,      \* what it returned or sent
    \* ---- SpecConc
    concBatch,      \* the two ExgData batches in progress: position and results
    concStore,      \* the backend's store they share: path -> PV
    concCalls       \* the backend calls of both batches, in the order they ran

exgVars   == <<exgReq, exgPc, exgI, vars, writePVs, readPaths, writeErrors, readResults,
               serviceError, calls, exgResp, exgClient>>
codecVars == <<codecOp, codecIn, codecOut>>
statsVars == <<stats, serving>>
concVars  == <<concBatch, concStore, concCalls>>
clientVars == <<clientOp, clientIn, clientOut, concVars>>
metaVars  == <<metaOp, metaIn, metaOut, clientVars>>
httpVars  == <<request, response, backend, action, handler, statsVars, metaVars>>
allVars   == <<exgVars, codecVars, httpVars>>

(***************************************************************************)
(* Bounds of the model.                                                    *)
(***************************************************************************)
\* longest writePVs / readPaths list of a batch
MaxBatch == 2
\* Width in bits of the model's machine integer.  The program's int64 is
\* scaled down so that every intermediate value fits TLC's integers; the
\* wrap-around law is the one of two's complement.
IntBits == 28
\* longest history
MaxHist == 2
\* longest payload handed to BytesToPV, in tokens
MaxPayload == 4
\* the segments of a request path
MaxSegs == 2
\* the goroutines that serve requests at the same time
MaxRequests == 2
\* the length of a request or response body
MaxLen == 2
\* What json.Decoder reads at least from its reader in one go (512 bytes in
\* encoding/json), scaled down to the payloads of the model, in tokens.
DecoderMinRead == 3

(***************************************************************************)
(* Go values.                                                              *)
(***************************************************************************)
\* the nil error / nil pointer
Nil == [nil |-> TRUE]

\* an error that is no veap.Error (errors.New, fmt.Errorf)
GoError(msg) == [msg |-> msg]

\* veap.NewErrorf(code, msg)
NewErrorf(code, msg) == [code |-> code, msg |-> msg]

StatusOK                  == 200
StatusCreated             == 201
StatusBadRequest          == 400
StatusForbidden           == 403
StatusNotFound            == 404
StatusMethodNotAllowed    == 405
StatusInternalServerError == 500
StatusClientError         == 900

\* sequences over S of length 0..n
SeqUpTo(S, n) == UNION {[1..k -> S] : k \in 0..n}

\* Two's-complement machine integers of IntBits bits.
RECURSIVE Pow2(_)
Pow2(n) == IF n = 0 THEN 1 ELSE 2 * Pow2(n - 1)
MaxInt == Pow2(IntBits - 1) - 1
MinInt == -Pow2(IntBits - 1)
Wrap(n) == ((n - MinInt) % Pow2(IntBits)) + MinInt
\* Go's integer division truncates toward zero
Quot(a, b) == IF a >= 0 THEN a \div b ELSE -((-a) \div b)

\* time.Time is modelled as the (unbounded) count of nanoseconds since the
\* Unix epoch.  Time.UnixNano() returns that count as a machine integer.
UnixNano(t) == Wrap(t)
\* time.Unix(0, nsec)
TimeUnix(nsec) == nsec
\* 1000000: nanoseconds per millisecond
NanosPerMilli == 1000000

\* time.Now(): the instants the clock may show when a PV is decoded
Clock == {5 * NanosPerMilli + 1}
\* the zero time.Time (year 1), far outside the range of UnixNano
ZeroTime == 3 * MinInt - 1
\* veap.PV{}
ZeroPV == [Time |-> ZeroTime, Value |-> "null", State |-> 0]

(***************************************************************************)
(* package encoding: PVs.  JSON values are modelled by their text.         *)
(***************************************************************************)
\* encoding.WireToPV; now is what time.Now() returns
WireToPV(w, now) ==
    [Time  |-> IF w.ts = 0 THEN now ELSE TimeUnix(Wrap(w.ts * NanosPerMilli)),
     Value |-> w.v,
     State |-> w.s]

\* A variant of PVToWire that takes the timestamp in seconds.
PVToWire_Seconds(pv) ==
    [ts |-> Quot(UnixNano(pv.Time), 1000 * NanosPerMilli), v |-> pv.Value, s |-> pv.State]

\* encoding.PVToWire
PVToWire(pv) ==
    [ts |-> Quot(UnixNano(pv.Time), NanosPerMilli), v |-> pv.Value, s |-> pv.State]

\* encoding.ErrorToWire
ErrorToWire(err) == IF err = Nil THEN Nil ELSE [code |-> err.code, message |-> err.msg]

\* encoding.WireToExgDataParams
WireToExgDataParams(w, now) ==
    [writePVs  |-> [i \in 1..Len(w.WritePVs) |->
                      [Path |-> w.WritePVs[i].path, PV |-> WireToPV(w.WritePVs[i].pv, now)]],
     readPaths |-> w.ReadPaths]

\* the loop body of ExgDataResultsToWire for one read result: the error
\* when there is one, else the PV (a nil pointer is omitted from the JSON)
ReadResultToWire(r) ==
    IF r.Error # Nil
    THEN [pv |-> Nil, error |-> ErrorToWire(r.Error)]
    ELSE [pv |-> PVToWire(r.PV), error |-> Nil]

\* encoding.ExgDataResultsToWire
ExgDataResultsToWire(wErrs, rResults) ==
    [WriteErrors |-> [i \in 1..Len(wErrs) |-> ErrorToWire(wErrs[i])],
     ReadResults |-> [i \in 1..Len(rResults) |-> ReadResultToWire(rResults[i])]]

(***************************************************************************)
(* package encoding: histories.                                            *)
(***************************************************************************)
\* encoding.HistToWire
HistToWire(hist) ==
    [Times  |-> [i \in 1..Len(hist) |-> Quot(UnixNano(hist[i].Time), NanosPerMilli)],
     Values |-> [i \in 1..Len(hist) |-> hist[i].Value],
     States |-> [i \in 1..Len(hist) |-> hist[i].State]]

\* A variant of WireToHist that reads the first timestamp for every entry.
WireToHist_FirstTime(w) ==
    IF Len(w.Values) # Len(w.Times) \/ Len(w.States) # Len(w.Times)
    THEN [hist |-> Nil,
          err  |-> NewErrorf(StatusBadRequest, <<"History arrays must have same length">>)]
    ELSE [hist |-> [i \in 1..Len(w.Times) |->
                      [Time  |-> TimeUnix(Wrap(w.Times[1] * NanosPerMilli)),
                       Value |-> w.Values[i],
                       State |-> w.States[i]]],
          err  |-> Nil]

\* A variant of WireToHist that compares the lengths of ts and v only.
WireToHist_TwoLengths(w) ==
    IF Len(w.Values) # Len(w.Times)
    THEN [hist |-> Nil,
          err  |-> NewErrorf(StatusBadRequest, <<"History arrays must have same length">>)]
    ELSE [hist |-> [i \in 1..Len(w.Times) |->
                      [Time  |-> TimeUnix(Wrap(w.Times[i] * NanosPerMilli)),
                       Value |-> w.Values[i],
                       State |-> IF i <= Len(w.States) THEN w.States[i] ELSE 0]],
          err  |-> Nil]

\* encoding.WireToHist
WireToHist(w) ==
    IF Len(w.Values) # Len(w.Times) \/ Len(w.States) # Len(w.Times)
    THEN [hist |-> Nil,
          err  |-> NewErrorf(StatusBadRequest, <<"History arrays must have same length">>)]
    ELSE [hist |-> [i \in 1..Len(w.Times) |->
                      [Time  |-> TimeUnix(Wrap(w.Times[i] * NanosPerMilli)),
                       Value |-> w.Values[i],
                       State |-> w.States[i]]],
          err  |-> Nil]

(***************************************************************************)
(* package encoding: BytesToPV.  A payload is a sequence of tokens:        *)
(*   "{" "}"   the braces of a JSON object                                 *)
(*   "m"       the member "v":1, a field of WirePV                         *)
(*   "q"       the member "q":1, no field of WirePV                        *)
(*   " "       white space                                                 *)
(*   "x"       a byte that no JSON text contains                           *)
(* so the JSON texts among the payloads are the objects {}, {m} and {q}    *)
(* with white space anywhere between the tokens.  A JSON value is a record *)
(* [kind, data]: null, the number 1, an object (map) with its member, or a *)
(* string with its bytes.                                                  *)
(***************************************************************************)
Tokens == {"{", "}", "m", "q", " ", "x"}
JsonNull      == [kind |-> "null", data |-> <<>>]
JsonOne       == [kind |-> "number", data |-> <<"1">>]
JsonMap(m)    == [kind |-> "map", data |-> m]
JsonString(b) == [kind |-> "string", data |-> b]

\* the index of the first token of p at or after i that is no white space,
\* 0 when there is none
RECURSIVE NextNonSpace(_, _)
NextNonSpace(p, i) ==
    IF i > Len(p) THEN 0
    ELSE IF p[i] # " " THEN i
    ELSE NextNonSpace(p, i + 1)

\* The scanner of encoding/json on the text p: the first JSON value of p.
\* ok: a value was found, it ends at token end and has the members member;
\* else eof tells whether the text ended before the value did.
ScanValue(p) ==
    LET bad  == [ok |-> FALSE, eof |-> FALSE, end |-> 0, member |-> <<>>]
        eof  == [ok |-> FALSE, eof |-> TRUE, end |-> 0, member |-> <<>>]
        i    == NextNonSpace(p, 1)
        j    == NextNonSpace(p, i + 1)
        k    == NextNonSpace(p, j + 1)
    IN  IF i = 0 THEN eof
        ELSE IF p[i] # "{" THEN bad
        ELSE IF j = 0 THEN eof
        ELSE IF p[j] = "}" THEN [ok |-> TRUE, eof |-> FALSE, end |-> j, member |-> <<>>]
        ELSE IF p[j] \notin {"m", "q"} THEN bad
        ELSE IF k = 0 THEN eof
        ELSE IF p[k] = "}" THEN [ok |-> TRUE, eof |-> FALSE, end |-> k, member |-> <<p[j]>>]
        ELSE bad

\* json.Decoder.refill: the capacity of the buffer after it has grown from
\* capacity cap until it holds n bytes
RECURSIVE BufferFor(_, _)
BufferFor(n, cap) ==
    IF cap >= n THEN cap ELSE BufferFor(n, 2 * cap + DecoderMinRead)

\* json.Decoder.Decode(&w) with DisallowUnknownFields on a reader of p,
\* followed by Decoder.Buffered(): the decoder fills its buffer from the
\* reader until the buffer holds the first value and reads no further.
\* buffered is what the buffer holds behind the value.
DecoderDecode(p) ==
    LET v    == ScanValue(p)
        read == IF Len(p) < BufferFor(v.end, DecoderMinRead)
                THEN Len(p) ELSE BufferFor(v.end, DecoderMinRead)
    IN  IF ~v.ok
        THEN [err |-> GoError(IF v.eof THEN "unexpected EOF" ELSE "invalid character"),
              w |-> Nil, buffered |-> <<>>]
        ELSE IF v.member = <<"q">>
        THEN [err |-> GoError("unknown field"), w |-> Nil, buffered |-> <<>>]
        ELSE [err |-> Nil,
              w   |-> [ts |-> 0, v |-> IF v.member = <<"m">> THEN JsonOne ELSE JsonNull, s |-> 0],
              buffered |-> SubSeq(p, v.end + 1, read)]

\* strings.TrimSpace(s) is not empty
NonSpace(s) == \E i \in 1..Len(s) : s[i] # " "

\* json.Unmarshal(p, &v) into an interface{}: the whole of p must be one
\* JSON value
JsonUnmarshal(p) ==
    LET v == ScanValue(p) IN
    IF v.ok /\ ~NonSpace(SubSeq(p, v.end + 1, Len(p)))
    THEN [err |-> Nil, v |-> JsonMap(v.member)]
    ELSE [err |-> GoError("invalid JSON"), v |-> Nil]

\* A variant of BytesToPV whose fuzzy mode has no fallback to the string.
BytesToPV_NoString(payload, fuzzy, now) ==
    LET d   == DecoderDecode(payload)
        err == IF d.err = Nil /\ NonSpace(d.buffered) THEN GoError("Unexpectet content") ELSE d.err
        u   == JsonUnmarshal(payload)
    IN  IF err # Nil /\ (~fuzzy \/ u.err # Nil)
        THEN [pv |-> ZeroPV, err |-> err]
        ELSE [pv |-> WireToPV(IF err = Nil THEN d.w ELSE [ts |-> 0, v |-> u.v, s |-> 0], now),
              err |-> Nil]

\* encoding.BytesToPV
BytesToPV(payload, fuzzy, now) ==
    LET d   == DecoderDecode(payload)
        err == IF d.err = Nil /\ NonSpace(d.buffered) THEN GoError("Unexpectet content") ELSE d.err
        u   == JsonUnmarshal(payload)
        w   == IF err = Nil THEN d.w
               ELSE IF u.err = Nil THEN [ts |-> 0, v |-> u.v, s |-> 0]
               ELSE [ts |-> 0, v |-> JsonString(payload), s |-> 0]
    IN  IF err # Nil /\ ~fuzzy
        THEN [pv |-> ZeroPV, err |-> err]
        ELSE [pv |-> WireToPV(w, now), err |-> Nil]

(***************************************************************************)
(* Package path on escaped paths.  A path is a sequence of tokens: "/" is  *)
(* the slash, "." and ".." are the dot elements, every other token is a    *)
(* run of bytes without a slash (a marker such as "~pv", an identifier).   *)
(***************************************************************************)
Slash == "/"

\* strings.HasPrefix(p, prefix)
HasPrefix(p, prefix) ==
    Len(prefix) <= Len(p) /\ SubSeq(p, 1, Len(prefix)) = prefix

\* strings.TrimPrefix(p, prefix)
TrimPrefix(p, prefix) ==
    IF HasPrefix(p, prefix) THEN SubSeq(p, Len(prefix) + 1, Len(p)) ELSE p

\* path.IsAbs(p)
IsAbs(p) == Len(p) > 0 /\ p[1] = Slash

\* the index of the last slash of p, 0 when it has none
RECURSIVE LastSlash(_)
LastSlash(p) ==
    IF p = <<>> THEN 0
    ELSE IF p[Len(p)] = Slash THEN Len(p)
    ELSE LastSlash(SubSeq(p, 1, Len(p) - 1))

\* p without its trailing slashes
RECURSIVE StripSlashes(_)
StripSlashes(p) ==
    IF p # <<>> /\ p[Len(p)] = Slash THEN StripSlashes(SubSeq(p, 1, Len(p) - 1)) ELSE p

\* path.Base(p)
Base(p) ==
    IF p = <<>> THEN <<".">>
    ELSE LET q == StripSlashes(p) IN
         IF q = <<>> THEN <<Slash>>
         ELSE SubSeq(q, LastSlash(q) + 1, Len(q))

\* the elements of p between its slashes, empty ones included
RECURSIVE Elements(_)
Elements(p) ==
    IF LastSlash(p) = 0 THEN <<p>>
    ELSE Append(Elements(SubSeq(p, 1, LastSlash(p) - 1)),
                SubSeq(p, LastSlash(p) + 1, Len(p)))

\* path.Clean, one element: empty and "." elements go, ".." takes the
\* element before it away, or stays when there is none and the path is not
\* rooted
CleanElement(stack, e, rooted) ==
    IF e = <<>> \/ e = <<".">> THEN stack
    ELSE IF e # <<"..">> THEN Append(stack, e)
    ELSE IF stack # <<>> /\ stack[Len(stack)] # <<"..">>
    THEN SubSeq(stack, 1, Len(stack) - 1)
    ELSE IF rooted THEN stack
    ELSE Append(stack, e)

\* path.Clean, the loop over the elements
RECURSIVE CleanElements(_, _, _)
CleanElements(elems, stack, rooted) ==
    IF elems = <<>> THEN stack
    ELSE CleanElements(Tail(elems), CleanElement(stack, Head(elems), rooted), rooted)

\* the elements joined by slashes
RECURSIVE JoinElements(_)
JoinElements(elems) ==
    IF elems = <<>> THEN <<>>
    ELSE IF Len(elems) = 1 THEN elems[1]
    ELSE elems[1] \o <<Slash>> \o JoinElements(Tail(elems))

\* path.Clean(p)
Clean(p) ==
    LET stack == CleanElements(Elements(p), <<>>, IsAbs(p)) IN
    IF IsAbs(p) THEN <<Slash>> \o JoinElements(stack)
    ELSE IF stack = <<>> THEN <<".">>
    ELSE JoinElements(stack)

\* path.Dir(p): Clean of p up to and with its last slash
Dir(p) == Clean(SubSeq(p, 1, LastSlash(p)))

(***************************************************************************)
(* package server: Handler.  A request is [Method, Path, Query, Body]:     *)
(* Path is the escaped URL path, Query holds the values of each parameter  *)
(* in order, Body is the request body.  A body is the JSON text of a       *)
(* WireHist or of WireExgDataParams, or a payload of tokens as BytesToPV   *)
(* reads it.  The service behind the handler is a stub: res is what its    *)
(* function returns to the one call the request makes.                     *)
(***************************************************************************)
PVMarker      == "~pv"
HistMarker    == "~hist"
ExgDataMarker == "~exgdata"
QueryMarker   == "~query"

defaultRequestSizeLimit == 1048576
defaultHistorySizeLimit == 10000

\* A variant of RespCode that answers every error with 400.
RespCode_BadRequest(err) == IF err = Nil THEN StatusOK ELSE StatusBadRequest

\* ServeHTTP: the status of a failed request
RespCode(err) ==
    IF err = Nil THEN StatusOK
    ELSE IF "code" \in DOMAIN err THEN err.code
    ELSE StatusInternalServerError

EmptyWireHist == [Times |-> <<>>, Values |-> <<>>, States |-> <<>>]
EmptyWireExg  == [WritePVs |-> <<>>, ReadPaths |-> <<>>]
BytesBody(p) ==
    [kind |-> "bytes", payload |-> p, pad |-> 0, hist |-> EmptyWireHist, exg |-> EmptyWireExg]
HistBody(w) ==
    [kind |-> "hist", payload |-> <<>>, pad |-> 0, hist |-> w, exg |-> EmptyWireExg]
ExgBody(w) ==
    [kind |-> "exg", payload |-> <<>>, pad |-> 0, hist |-> EmptyWireHist, exg |-> w]
\* the payload p with n bytes of white space behind it
PaddedBody(p, n) == [BytesBody(p) EXCEPT !.pad = n]

\* len(reqBytes): a token or an array element is a byte, and so is each of
\* the three members of a WireHist and the two of WireExgDataParams
BodyLen(b) ==
    IF b.kind = "bytes" THEN Len(b.payload) + b.pad
    ELSE IF b.kind = "hist"
    THEN 3 + Len(b.hist.Times) + Len(b.hist.Values) + Len(b.hist.States)
    ELSE 2 + Len(b.exg.WritePVs) + Len(b.exg.ReadPaths)

\* json.Unmarshal(reqBytes, &w) for a WireHist: members the type does not
\* have are skipped, the number of "v":1 is no array
UnmarshalWireHist(b) ==
    IF b.kind = "hist" THEN [err |-> Nil, w |-> b.hist]
    ELSE IF b.kind = "exg" THEN [err |-> Nil, w |-> EmptyWireHist]
    ELSE IF JsonUnmarshal(b.payload).err # Nil
    THEN [err |-> JsonUnmarshal(b.payload).err, w |-> EmptyWireHist]
    ELSE IF JsonUnmarshal(b.payload).v.data = <<"m">>
    THEN [err |-> GoError("cannot unmarshal number"), w |-> EmptyWireHist]
    ELSE [err |-> Nil, w |-> EmptyWireHist]

\* json.Unmarshal(reqBytes, &wireParams) for WireExgDataParams
UnmarshalWireExg(b) ==
    IF b.kind = "exg" THEN [err |-> Nil, w |-> b.exg]
    ELSE IF b.kind = "hist" THEN [err |-> Nil, w |-> EmptyWireExg]
    ELSE [err |-> JsonUnmarshal(b.payload).err, w |-> EmptyWireExg]

\* json.Unmarshal(reqBytes, &attr) for a map: every JSON object is one
UnmarshalAttr(b) ==
    IF b.kind = "bytes" THEN JsonUnmarshal(b.payload).err ELSE Nil

\* encoding.BytesToPV on a request body: ts of a WireHist is an array and
\* no number, WirePV has no member of WireExgDataParams
BodyToPV(b, fuzzy, now) ==
    IF b.kind = "bytes" THEN BytesToPV(b.payload, fuzzy, now)
    ELSE IF b.kind = "hist"
    THEN [pv |-> ZeroPV, err |-> GoError("cannot unmarshal array")]
    ELSE [pv |-> ZeroPV, err |-> GoError("unknown field")]

\* url.Values.Get: the first value of the parameter, "" when it has none
Get(values, empty) == IF values = <<>> THEN empty ELSE values[1]

\* A variant of requestSizeLimit without the default.
requestSizeLimit_NoDefault(h) == h.RequestSizeLimit

\* Handler.requestSizeLimit
requestSizeLimit(h) ==
    IF h.RequestSizeLimit = 0 THEN defaultRequestSizeLimit ELSE h.RequestSizeLimit

\* Handler.historySizeLimit
historySizeLimit(h) ==
    IF h.HistorySizeLimit = 0 THEN defaultHistorySizeLimit ELSE h.HistorySizeLimit

\* parseIntParam: values are the texts of the parameter, [ok, n] each, ok
\* when strconv.ParseInt reads the text as n
parseIntParam(values, name) ==
    IF values = <<>> THEN [err |-> Nil, set |-> FALSE, i |-> 0]
    ELSE IF Len(values) # 1 \/ ~values[1].ok
    THEN [err |-> NewErrorf(StatusBadRequest, <<"Invalid request parameter", name>>),
          set |-> FALSE, i |-> 0]
    ELSE [err |-> Nil, set |-> TRUE, i |-> values[1].n]

\* parseTimeParam
parseTimeParam(values, name) ==
    LET p == parseIntParam(values, name) IN
    [err |-> p.err, set |-> p.set, t |-> TimeUnix(Wrap(p.i * NanosPerMilli))]

\* what a serve function hands back to ServeHTTP, with the calls it made
Served(cs, err, body, contentType, created) ==
    [calls |-> cs, err |-> err, body |-> body, contentType |-> contentType,
     created |-> created]
Failed(err) == Served(<<>>, err, Nil, "application/json", FALSE)
Call(op, path, arg) == [op |-> op, path |-> path, arg |-> arg]

\* what the service stub holds: a PV, a history, the properties of an object
ServicePV    == [Time |-> 2 * NanosPerMilli, Value |-> JsonOne, State |-> 0]
ServiceHist  == <<[Time |-> NanosPerMilli, Value |-> JsonOne, State |-> 0], ServicePV>>
ServiceAttr  == JsonMap(<<"m">>)
ServiceLinks == <<[Role |-> "child", Target |-> <<"b">>, Title |-> ""],
                  [Role |-> "parent", Target |-> <<Slash, "a">>, Title |-> ""]>>

\* the links the service stub returns with the properties of an object:
\* none, a relative before an absolute target, or the other way round
ServiceLinkLists == {<<>>, ServiceLinks, <<ServiceLinks[2], ServiceLinks[1]>>}

\* the objects the MetaService stub finds: one for each path, the root for
\* the empty path
ServiceQuery(paths, res) ==
    [i \in 1..Len(paths) |->
        [Path       |-> IF IsAbs(paths[i]) THEN paths[i] ELSE <<Slash>> \o paths[i],
         Attributes |-> ServiceAttr,
         Links      |-> res.links]]

\* Handler.errorResponse
errorResponse(code, msg) ==
    [code |-> code, contentType |-> "application/json", body |-> [message |-> msg]]

\* Handler.servePV
servePV(h, path, format, res) ==
    IF res.err # Nil
    THEN Served(<<Call("ReadPV", path, Nil)>>, res.err, Nil, "", FALSE)
    ELSE IF format = "simple"
    THEN Served(<<Call("ReadPV", path, Nil)>>, Nil, [text |-> ServicePV.Value],
                "text/plain; charset=utf-8", FALSE)
    ELSE IF ~res.encodable
    THEN Served(<<Call("ReadPV", path, Nil)>>, GoError(<<"Conversion of PV to JSON failed">>),
                Nil, "", FALSE)
    ELSE Served(<<Call("ReadPV", path, Nil)>>, Nil, PVToWire(ServicePV),
                "application/json", FALSE)

\* Handler.serveSetPV
serveSetPV(h, path, b, fuzzy, now, res) ==
    LET d == BodyToPV(b, fuzzy, now) IN
    IF d.err # Nil
    THEN Failed(NewErrorf(StatusBadRequest, <<"Conversion of JSON to PV failed", d.err.msg>>))
    ELSE Served(<<Call("WritePV", path, [pv |-> d.pv])>>, res.err, Nil,
                "application/json", FALSE)

\* 24 * time.Hour, in the scale of the clock
Day == 4 * NanosPerMilli

\* Handler.serveHistory
serveHistory(h, path, params, now, res) ==
    LET b        == parseTimeParam(params.begin, "begin")
        e        == parseTimeParam(params.end, "end")
        l        == parseIntParam(params.limit, "limit")
        maxLimit == historySizeLimit(h)
        begin    == IF b.set THEN b.t ELSE now - Day
        end      == IF e.set THEN e.t ELSE now
        limit    == IF l.set /\ ~(l.i > maxLimit) THEN l.i ELSE maxLimit
        call     == Call("ReadHistory", path, [begin |-> begin, end |-> end, limit |-> limit])
    IN  IF b.err # Nil THEN Failed(b.err)
        ELSE IF e.err # Nil THEN Failed(e.err)
        ELSE IF b.set # e.set
        THEN Failed(NewErrorf(StatusBadRequest,
                 <<"Missing request parameter", IF b.set THEN "end" ELSE "begin">>))
        ELSE IF l.err # Nil THEN Failed(l.err)
        ELSE IF res.err # Nil THEN Served(<<call>>, res.err, Nil, "application/json", FALSE)
        ELSE IF ~res.encodable
        THEN Served(<<call>>, GoError(<<"Conversion of history to JSON failed">>), Nil,
                    "application/json", FALSE)
        ELSE Served(<<call>>, Nil, HistToWire(ServiceHist), "application/json", FALSE)

\* Handler.serveSetHistory
serveSetHistory(h, path, reqBytes, res) ==
    LET u == UnmarshalWireHist(reqBytes)
        c == WireToHist(u.w)
    IN  IF u.err # Nil
        THEN Failed(NewErrorf(StatusBadRequest,
                 <<"Conversion of JSON to history failed", u.err.msg>>))
        ELSE IF c.err # Nil THEN Failed(c.err)
        ELSE Served(<<Call("WriteHistory", path, [hist |-> c.hist])>>, res.err, Nil,
                    "application/json", FALSE)

LinksMarker == "~links"
PathMarker  == "~path"

\* A variant of WireLinks that emits every target as it is.
WireLinks_NoPrefix(h, links) ==
    [i \in 1..Len(links) |->
        [rel |-> links[i].Role, href |-> links[i].Target, title |-> links[i].Title]]

\* the loop of serveProperties and serveQuery over the links: the prefix
\* goes before the absolute targets
WireLinks(h, links) ==
    [i \in 1..Len(links) |->
        [rel   |-> links[i].Role,
         href  |-> IF IsAbs(links[i].Target) THEN h.URLPrefix \o links[i].Target
                   ELSE links[i].Target,
         title |-> links[i].Title]]

\* wireAttr of serveProperties and serveQuery: the attributes, and the
\* ~links property when there are links
WireAttr(h, attr, links) ==
    IF Len(links) > 0 THEN ("attr" :> attr) @@ (LinksMarker :> WireLinks(h, links))
    ELSE ("attr" :> attr)

\* Handler.serveProperties
serveProperties(h, objPath, res) ==
    IF res.err # Nil
    THEN Served(<<Call("ReadProperties", objPath, Nil)>>, res.err, Nil,
                "application/json", FALSE)
    ELSE IF ~res.encodable
    THEN Served(<<Call("ReadProperties", objPath, Nil)>>,
                GoError(<<"Conversion of properties to JSON failed">>), Nil,
                "application/json", FALSE)
    ELSE Served(<<Call("ReadProperties", objPath, Nil)>>, Nil,
                WireAttr(h, ServiceAttr, res.links), "application/json", FALSE)

\* Handler.serveSetProperties
serveSetProperties(h, path, reqBytes, res) ==
    IF UnmarshalAttr(reqBytes) # Nil
    THEN Failed(NewErrorf(StatusBadRequest,
             <<"Conversion of JSON to attributes failed", UnmarshalAttr(reqBytes).msg>>))
    ELSE Served(<<Call("WriteProperties", path, [attr |-> reqBytes])>>, res.err, Nil,
                "application/json", res.created)

\* Handler.serveDelete
serveDelete(h, path, res) ==
    Served(<<Call("Delete", path, Nil)>>, res.err, Nil, "application/json", FALSE)

\* Handler.serveExgData; a MetaService stub answers every write with no
\* error and every read with its PV
serveExgData(h, reqBytes, now, res) ==
    LET u    == UnmarshalWireExg(reqBytes)
        p    == WireToExgDataParams(u.w, now)
        call == Call("ExgData", <<>>, p)
        wErr == [i \in 1..Len(p.writePVs) |-> Nil]
        rRes == [i \in 1..Len(p.readPaths) |-> [PV |-> ServicePV, Error |-> Nil]]
    IN  IF ~h.MetaService
        THEN Failed(NewErrorf(StatusBadRequest, <<"ExgData service not implemented">>))
        ELSE IF u.err # Nil
        THEN Failed(NewErrorf(StatusBadRequest,
                 <<"Invalid JSON for ExgData parameters", u.err.msg>>))
        ELSE IF res.err # Nil
        THEN Served(<<call>>, res.err, Nil, "application/json", FALSE)
        ELSE IF ~res.encodable /\ rRes # <<>>
        THEN Served(<<call>>, NewErrorf(StatusInternalServerError,
                        <<"Conversion of ExgData results to JSON failed">>),
                    Nil, "application/json", FALSE)
        ELSE Served(<<call>>, Nil, ExgDataResultsToWire(wErr, rRes), "application/json", FALSE)

\* the loop of serveQuery over the query results
WireResult(h, queryResults) ==
    [idx \in 1..Len(queryResults) |->
        WireAttr(h, queryResults[idx].Attributes, queryResults[idx].Links)
        @@ (PathMarker :> IF IsAbs(queryResults[idx].Path)
                          THEN h.URLPrefix \o queryResults[idx].Path
                          ELSE queryResults[idx].Path)]

\* Handler.serveQuery
serveQuery(h, parameters, res) ==
    LET masks == parameters.path
        paths == [i \in 1..Len(masks) |-> TrimPrefix(masks[i], h.URLPrefix)]
        call  == Call("Query", <<>>, [paths |-> paths])
        found == WireResult(h, ServiceQuery(paths, res))
    IN  IF ~h.MetaService
        THEN Failed(NewErrorf(StatusBadRequest, <<"Query service not implemented">>))
        ELSE IF \E i \in 1..Len(masks) : ~HasPrefix(masks[i], h.URLPrefix)
        THEN Failed(NewErrorf(StatusNotFound, <<"Path prefix does not match">>))
        ELSE IF res.err # Nil
        THEN Served(<<call>>, res.err, Nil, "application/json", FALSE)
        ELSE IF ~res.encodable /\ found # <<>>
        THEN Served(<<call>>, NewErrorf(StatusInternalServerError,
                        <<"Conversion of Query results to JSON failed">>),
                    Nil, "application/json", FALSE)
        ELSE Served(<<call>>, Nil, found, "application/json", FALSE)

\* ServeHTTP from "send error response" on: the response to what the
\* serve function act handed back
Reply(act, r) ==
    [action   |-> act,
     calls    |-> r.calls,
     created  |-> r.created,
     response |-> IF r.err # Nil THEN errorResponse(RespCode(r.err), r.err.msg)
                  ELSE [code        |-> IF r.created THEN StatusCreated ELSE StatusOK,
                        contentType |-> r.contentType,
                        body        |-> r.body]]

\* ServeHTTP where it answers with errorResponse and returns
Reject(code, msg) ==
    [action |-> "errorResponse", calls |-> <<>>, created |-> FALSE,
     response |-> errorResponse(code, msg)]

\* A variant of Dispatch that serves ~exgdata and ~query at every path.
Dispatch_AnyPath(h, method, fullPath, query, reqBytes, now, res) ==
    LET base == Base(fullPath) IN
    IF base = <<PVMarker>> THEN
        IF method = "GET" THEN
            IF Get(query.writepv, <<>>) # <<>>
            THEN Reply("serveSetPV", serveSetPV(h, Dir(fullPath),
                           BytesBody(Get(query.writepv, <<>>)), TRUE, now, res))
            ELSE Reply("servePV", servePV(h, Dir(fullPath), Get(query.format, ""), res))
        ELSE IF method = "PUT"
        THEN Reply("serveSetPV", serveSetPV(h, Dir(fullPath), reqBytes, FALSE, now, res))
        ELSE Reject(StatusMethodNotAllowed, <<"Method not allowed for PV">>)
    ELSE IF base = <<HistMarker>> THEN
        IF method = "GET"
        THEN Reply("serveHistory", serveHistory(h, Dir(fullPath), query, now, res))
        ELSE IF method = "PUT"
        THEN Reply("serveSetHistory", serveSetHistory(h, Dir(fullPath), reqBytes, res))
        ELSE Reject(StatusMethodNotAllowed, <<"Method not allowed for history">>)
    ELSE IF base = <<ExgDataMarker>> THEN
        IF method # "PUT"
        THEN Reject(StatusMethodNotAllowed, <<"Invalid method for ExgData service">>)
        ELSE Reply("serveExgData", serveExgData(h, reqBytes, now, res))
    ELSE IF base = <<QueryMarker>> THEN
        IF method # "GET"
        THEN Reject(StatusMethodNotAllowed, <<"Invalid method for Query service">>)
        ELSE Reply("serveQuery", serveQuery(h, query, res))
    ELSE IF method = "GET"
    THEN Reply("serveProperties", serveProperties(h, fullPath, res))
    ELSE IF method = "PUT"
    THEN Reply("serveSetProperties", serveSetProperties(h, fullPath, reqBytes, res))
    ELSE IF method = "DELETE"
    THEN Reply("serveDelete", serveDelete(h, fullPath, res))
    ELSE Reject(StatusMethodNotAllowed, <<"Method not allowed">>)

\* ServeHTTP from "dispatch VEAP service" on
Dispatch(h, method, fullPath, query, reqBytes, now, res) ==
    LET base == Base(fullPath) IN
    IF base = <<PVMarker>> THEN
        IF method = "GET" THEN
            IF Get(query.writepv, <<>>) # <<>>
            THEN Reply("serveSetPV", serveSetPV(h, Dir(fullPath),
                           BytesBody(Get(query.writepv, <<>>)), TRUE, now, res))
            ELSE Reply("servePV", servePV(h, Dir(fullPath), Get(query.format, ""), res))
        ELSE IF method = "PUT"
        THEN Reply("serveSetPV", serveSetPV(h, Dir(fullPath), reqBytes, FALSE, now, res))
        ELSE Reject(StatusMethodNotAllowed, <<"Method not allowed for PV">>)
    ELSE IF base = <<HistMarker>> THEN
        IF method = "GET"
        THEN Reply("serveHistory", serveHistory(h, Dir(fullPath), query, now, res))
        ELSE IF method = "PUT"
        THEN Reply("serveSetHistory", serveSetHistory(h, Dir(fullPath), reqBytes, res))
        ELSE Reject(StatusMethodNotAllowed, <<"Method not allowed for history">>)
    ELSE IF base = <<ExgDataMarker>> THEN
        IF method # "PUT"
        THEN Reject(StatusMethodNotAllowed, <<"Invalid method for ExgData service">>)
        ELSE IF fullPath # <<Slash, ExgDataMarker>>
        THEN Reject(StatusNotFound, <<"Invalid path for ExgData service">>)
        ELSE Reply("serveExgData", serveExgData(h, reqBytes, now, res))
    ELSE IF base = <<QueryMarker>> THEN
        IF method # "GET"
        THEN Reject(StatusMethodNotAllowed, <<"Invalid method for Query service">>)
        ELSE IF fullPath # <<Slash, QueryMarker>>
        THEN Reject(StatusNotFound, <<"Invalid path for Query service">>)
        ELSE Reply("serveQuery", serveQuery(h, query, res))
    ELSE IF method = "GET"
    THEN Reply("serveProperties", serveProperties(h, fullPath, res))
    ELSE IF method = "PUT"
    THEN Reply("serveSetProperties", serveSetProperties(h, fullPath, reqBytes, res))
    ELSE IF method = "DELETE"
    THEN Reply("serveDelete", serveDelete(h, fullPath, res))
    ELSE Reject(StatusMethodNotAllowed, <<"Method not allowed">>)

\* A variant of ServeHTTP that receives the body before it looks at the
\* prefix.
HandlerServeHTTP_SizeFirst(h, req, now, res) ==
    IF BodyLen(req.Body) > requestSizeLimit(h)
    THEN Reject(StatusBadRequest, <<"Receiving of request failed">>)
    ELSE IF ~HasPrefix(req.Path, h.URLPrefix)
    THEN Reject(StatusNotFound, <<"URL prefix does not match">>)
    ELSE Dispatch(h, req.Method, TrimPrefix(req.Path, h.URLPrefix), req.Query, req.Body,
                  now, res)

\* Handler.ServeHTTP on request req
HandlerServeHTTP(h, req, now, res) ==
    IF ~HasPrefix(req.Path, h.URLPrefix)
    THEN Reject(StatusNotFound, <<"URL prefix does not match">>)
    ELSE IF BodyLen(req.Body) > requestSizeLimit(h)
    THEN Reject(StatusBadRequest, <<"Receiving of request failed">>)
    ELSE Dispatch(h, req.Method, TrimPrefix(req.Path, h.URLPrefix), req.Query, req.Body,
                  now, res)

(***************************************************************************)
(* SpecCodec: the codec functions applied to inputs from bounded sets.     *)
(***************************************************************************)
\* the largest whole millisecond that UnixNano can express
MaxMs == MaxInt \div NanosPerMilli
\* instants on a millisecond boundary: the epoch, instants before and after
\* it, and on both sides the last instant UnixNano can express and the
\* first it cannot
WholeMsTimes ==
    {ms * NanosPerMilli : ms \in {-(MaxMs + 1), -MaxMs, -2, -1, 0, 1, 2, MaxMs, MaxMs + 1}}
\* instants off the millisecond boundaries
OtherTimes == {-NanosPerMilli - 1, -1, 1, NanosPerMilli + 1, 2 * NanosPerMilli - 1}
IsWholeMs(t) == t % NanosPerMilli = 0
\* the instant is in the range of Time.UnixNano
InUnixNanoRange(t) == MinInt <= t /\ t <= MaxInt

\* the PVs handed to the codec
CodecPVs ==
    {[Time |-> t, Value |-> vs[1], State |-> vs[2]] :
        t \in WholeMsTimes \cup OtherTimes, vs \in {<<"7", 0>>, <<"42", 100>>}}
\* the PVs of the histories handed to the codec
HistPVs ==
    {[Time |-> t, Value |-> "7", State |-> 0] : t \in WholeMsTimes \cup {NanosPerMilli + 1}}
    \cup {[Time |-> 2 * NanosPerMilli, Value |-> "42", State |-> 100]}
\* the payloads handed to BytesToPV
Payloads == SeqUpTo(Tokens, MaxPayload)

\* WireToPV(PVToWire(pv))
CodecRoundTripPV ==
    /\ codecOp = "none"
    /\ \E pv \in CodecPVs, now \in Clock :
         /\ codecIn' = [pv |-> pv, now |-> now]
         /\ codecOut' = [wire |-> PVToWire(pv), pv |-> WireToPV(PVToWire(pv), now)]
    /\ codecOp' = "RoundTripPV"
    /\ UNCHANGED <<exgVars, httpVars>>

\* WireToHist(HistToWire(hist))
CodecRoundTripHist ==
    /\ codecOp = "none"
    /\ \E hist \in SeqUpTo(HistPVs, MaxHist) :
         /\ codecIn' = [hist |-> hist]
         /\ codecOut' = [wire |-> HistToWire(hist), res |-> WireToHist(HistToWire(hist))]
    /\ codecOp' = "RoundTripHist"
    /\ UNCHANGED <<exgVars, httpVars>>

\* BytesToPV(payload, fuzzy)
CodecBytesToPV ==
    /\ codecOp = "none"
    /\ \E payload \in Payloads, fuzzy \in BOOLEAN, now \in Clock :
         /\ codecIn' = [payload |-> payload, fuzzy |-> fuzzy, now |-> now]
         /\ codecOut' = BytesToPV(payload, fuzzy, now)
    /\ codecOp' = "BytesToPV"
    /\ UNCHANGED <<exgVars, httpVars>>

\* the timestamps a wire value may carry: none (0), milliseconds before and
\* after the epoch, and on both sides the last one whose nanosecond count
\* fits the machine integer and the first whose count does not
WireTimestamps == {-(MaxMs + 1), -MaxMs, -1, 0, 1, 2, MaxMs, MaxMs + 1}

\* WireToPV(w)
CodecWireToPV ==
    /\ codecOp = "none"
    /\ \E ts \in WireTimestamps, now \in Clock :
         /\ codecIn' = [wire |-> [ts |-> ts, v |-> "7", s |-> 0], now |-> now]
         /\ codecOut' = [pv |-> WireToPV([ts |-> ts, v |-> "7", s |-> 0], now)]
    /\ codecOp' = "WireToPV"
    /\ UNCHANGED <<exgVars, httpVars>>

\* WireToHist(w)
CodecWireToHist ==
    /\ codecOp = "none"
    /\ \E times \in SeqUpTo(WireTimestamps, MaxHist) :
         LET w == [Times  |-> times,
                   Values |-> [i \in 1..Len(times) |-> "7"],
                   States |-> [i \in 1..Len(times) |-> 0]]
         IN  /\ codecIn' = [wire |-> w]
             /\ codecOut' = WireToHist(w)
    /\ codecOp' = "WireToHist"
    /\ UNCHANGED <<exgVars, httpVars>>

\* parseTimeParam(params, "begin"): the parameter is absent, a number or
\* a text that is no number
CodecParseTimeParam ==
    /\ codecOp = "none"
    /\ \E values \in {<<>>, <<[ok |-> FALSE, n |-> 0]>>}
                         \cup {<<[ok |-> TRUE, n |-> ts]>> : ts \in WireTimestamps} :
         /\ codecIn' = [values |-> values]
         /\ codecOut' = parseTimeParam(values, "begin")
    /\ codecOp' = "parseTimeParam"
    /\ UNCHANGED <<exgVars, httpVars>>

\* the result is consumed
CodecDone ==
    /\ codecOp # "none"
    /\ codecOp' = "none"
    /\ codecIn' = Nil
    /\ codecOut' = Nil
    /\ UNCHANGED <<exgVars, httpVars>>

(***************************************************************************)
(* SpecExg: the backend of TestExgData (a map of PVs behind a FuncService) *)
(* and BasicMetaService.ExgData over it, reached through serveExgData.     *)
(***************************************************************************)
\* the paths a batch may name; the backend knows the first two
ExgPaths == {"/a", "/b", "/x"}
\* the wire PVs a batch may write: one without a timestamp, one with
ExgWirePVs == {[ts |-> 0, v |-> "7", s |-> 0], [ts |-> 2, v |-> "42", s |-> 100]}
\* vars of TestExgData
InitVars ==
    [p \in {"/a", "/b"} |->
        [Time |-> NanosPerMilli, Value |-> IF p = "/a" THEN "1.0" ELSE "b", State |-> 0]]

\* the bodies PUT /~exgdata may carry, decoded into WireExgDataParams
ExgWireParams ==
    [WritePVs  : SeqUpTo([path : ExgPaths, pv : ExgWirePVs], MaxBatch),
     ReadPaths : SeqUpTo(ExgPaths, MaxBatch)]

NotFound(path) == NewErrorf(StatusNotFound, <<"Not found: ", path>>)

\* ReadPVFunc of the backend
BackendReadPV(store, path) ==
    IF path \in DOMAIN store
    THEN [PV |-> store[path], Error |-> Nil]
    ELSE [PV |-> ZeroPV, Error |-> NotFound(path)]

\* WritePVFunc of the backend: the error it returns
BackendWritePV(store, path) ==
    IF path \in DOMAIN store THEN Nil ELSE NotFound(path)

\* WritePVFunc of the backend: the store it leaves
BackendStore(store, path, pv) ==
    IF path \in DOMAIN store THEN [store EXCEPT ![path] = pv] ELSE store

\* The order of the two loops of ExgData, as the statements stand in the
\* function: from its entry to the write loop, from the write loop to the
\* read loop, from the read loop to the return.
ExgLoopAfter_ReadsFirst(pc) ==
    CASE pc = "begin" -> "read"
      [] pc = "read"  -> "write"
      [] OTHER        -> "returned"

ExgLoopAfter(pc) ==
    CASE pc = "begin" -> "write"
      [] pc = "write" -> "read"
      [] OTHER        -> "returned"

\* the number of iterations of the loop at pc
ExgLoopLen(pc) == IF pc = "write" THEN Len(writePVs) ELSE Len(readPaths)

\* serveExgData decodes the parameters and enters ExgData, which allocates
\* writeErrors (readResults is allocated here too: the code allocates it
\* after the write loop, which no backend call can observe).
ExgBegin ==
    /\ exgPc = "idle"
    /\ \E w \in ExgWireParams, now \in Clock :
         LET p == WireToExgDataParams(w, now) IN
         /\ exgReq' = w
         /\ writePVs' = p.writePVs
         /\ readPaths' = p.readPaths
         /\ writeErrors' = [i \in 1..Len(p.writePVs) |-> Nil]
         /\ readResults' = [i \in 1..Len(p.readPaths) |-> [PV |-> ZeroPV, Error |-> Nil]]
    /\ exgPc' = ExgLoopAfter("begin")
    /\ exgI' = 1
    /\ calls' = <<>>
    /\ serviceError' = Nil
    /\ exgResp' = Nil
    /\ exgClient' = Nil
    /\ UNCHANGED <<vars, codecVars, httpVars>>

\* A variant of the write loop's body that gives up at the first failure.
ExgWritePV_Abort ==
    /\ exgPc = "write"
    /\ exgI <= Len(writePVs)
    /\ LET w   == writePVs[exgI]
           err == BackendWritePV(vars, w.Path) IN
       /\ calls' = Append(calls, [op |-> "WritePV", path |-> w.Path, pv |-> w.PV, err |-> err])
       /\ vars' = BackendStore(vars, w.Path, w.PV)
       /\ writeErrors' = [writeErrors EXCEPT ![exgI] = err]
       /\ IF err = Nil
          THEN exgI' = exgI + 1 /\ UNCHANGED <<exgPc, serviceError>>
          ELSE exgI' = exgI /\ exgPc' = "returned" /\ serviceError' = err
    /\ UNCHANGED <<exgReq, writePVs, readPaths, readResults, exgResp, exgClient,
                   codecVars, httpVars>>

\* A variant of the write loop's body that appends to the slice that
\* make() already sized.
ExgWritePV_Append ==
    /\ exgPc = "write"
    /\ exgI <= Len(writePVs)
    /\ LET w   == writePVs[exgI]
           err == BackendWritePV(vars, w.Path) IN
       /\ calls' = Append(calls, [op |-> "WritePV", path |-> w.Path, pv |-> w.PV, err |-> err])
       /\ vars' = BackendStore(vars, w.Path, w.PV)
       /\ writeErrors' = Append(writeErrors, err)
    /\ exgI' = exgI + 1
    /\ UNCHANGED <<exgPc, exgReq, writePVs, readPaths, readResults, serviceError,
                   exgResp, exgClient, codecVars, httpVars>>

\* one iteration of the write loop: writeErrors[i] = m.WritePV(...)
ExgWritePV ==
    /\ exgPc = "write"
    /\ exgI <= Len(writePVs)
    /\ LET w   == writePVs[exgI]
           err == BackendWritePV(vars, w.Path) IN
       /\ calls' = Append(calls, [op |-> "WritePV", path |-> w.Path, pv |-> w.PV, err |-> err])
       /\ vars' = BackendStore(vars, w.Path, w.PV)
       /\ writeErrors' = [writeErrors EXCEPT ![exgI] = err]
    /\ exgI' = exgI + 1
    /\ UNCHANGED <<exgPc, exgReq, writePVs, readPaths, readResults, serviceError,
                   exgResp, exgClient,
                   codecVars, httpVars>>

\* one iteration of the read loop: readResults[i] = ReadPVResult{pv, err}
ExgReadPV ==
    /\ exgPc = "read"
    /\ exgI <= Len(readPaths)
    /\ LET r == BackendReadPV(vars, readPaths[exgI]) IN
       /\ calls' = Append(calls, [op |-> "ReadPV", path |-> readPaths[exgI],
                                  pv |-> r.PV, err |-> r.Error])
       /\ readResults' = [readResults EXCEPT ![exgI] = r]
    /\ exgI' = exgI + 1
    /\ UNCHANGED <<exgPc, exgReq, vars, writePVs, readPaths, writeErrors, serviceError,
                   exgResp, exgClient,
                   codecVars, httpVars>>

\* a loop is through: on to the next loop, or return with no serviceError
ExgLoopDone ==
    /\ exgPc \in {"write", "read"}
    /\ exgI > ExgLoopLen(exgPc)
    /\ exgPc' = ExgLoopAfter(exgPc)
    /\ exgI' = 1
    /\ UNCHANGED <<exgReq, vars, writePVs, readPaths, writeErrors, readResults,
                   serviceError, calls, exgResp, exgClient,
                   codecVars, httpVars>>

\* serveExgData after the call of ExgData, and ServeHTTP's response
ExgReply ==
    /\ exgPc = "returned"
    /\ exgResp' = [code |-> RespCode(serviceError),
                   body |-> IF serviceError = Nil
                            THEN ExgDataResultsToWire(writeErrors, readResults)
                            ELSE [message |-> serviceError.msg]]
    /\ exgPc' = "replied"
    /\ UNCHANGED <<exgI, exgReq, vars, writePVs, readPaths, writeErrors, readResults,
                   serviceError, calls, exgClient,
                   codecVars, httpVars>>

\* The responses the client may receive for the one sent: the response
\* itself, or one of a peer that drops the last write error or adds a
\* read result.
Delivered(resp) ==
    {resp}
    \cup (IF resp.code = StatusOK /\ Len(resp.body.WriteErrors) > 0
          THEN {[resp EXCEPT !.body.WriteErrors = SubSeq(@, 1, Len(@) - 1)]}
          ELSE {})
    \cup (IF resp.code = StatusOK /\ Len(resp.body.ReadResults) < MaxBatch
          THEN {[resp EXCEPT !.body.ReadResults =
                    Append(@, [pv |-> Nil, error |-> [code |-> 500, message |-> "x"]])]}
          ELSE {})

\* Client.ExgData from the response on: the serviceError it returns
ClientExgDataError(wireParams, resp) ==
    IF resp.code # StatusOK
    THEN NewErrorf(resp.code, <<"Received HTTP status: ", resp.code>>)
    ELSE IF \/ Len(resp.body.WriteErrors) # Len(wireParams.WritePVs)
            \/ Len(resp.body.ReadResults) # Len(wireParams.ReadPaths)
         THEN NewErrorf(StatusClientError, "Exgdata response does not match request")
         ELSE Nil

\* Client.ExgData receives the response
ClientExgData ==
    /\ exgPc = "replied"
    /\ \E r \in Delivered(exgResp) :
         exgClient' = [received |-> r, serviceError |-> ClientExgDataError(exgReq, r)]
    /\ exgPc' = "received"
    /\ UNCHANGED <<exgI, exgReq, vars, writePVs, readPaths, writeErrors, readResults,
                   serviceError, calls, exgResp,
                   codecVars, httpVars>>

(***************************************************************************)
(* SpecHttp: a Handler over a service stub serves one request at a time.   *)
(***************************************************************************)
Markers  == {PVMarker, HistMarker, ExgDataMarker, QueryMarker}
Segments == Markers \cup {"p"}
Methods  == {"GET", "PUT", "DELETE", "POST"}

\* the path of the segments segs
RECURSIVE PathOf(_)
PathOf(segs) == IF segs = <<>> THEN <<>> ELSE <<Slash, Head(segs)>> \o PathOf(Tail(segs))

\* the escaped URL paths: up to MaxSegs segments, with or without a slash
\* at the end
UrlPaths == {PathOf(segs) \o t : segs \in SeqUpTo(Segments, MaxSegs), t \in {<<>>, <<Slash>>}}

\* the handlers: the plain one of the tests, one behind a prefix, one whose
\* service is no MetaService, one with limits of its own
PlainHandler ==
    [URLPrefix |-> <<>>, RequestSizeLimit |-> 0, HistorySizeLimit |-> 0, MetaService |-> TRUE]
Handlers ==
    {PlainHandler,
     [PlainHandler EXCEPT !.URLPrefix = <<Slash, "p">>],
     [PlainHandler EXCEPT !.MetaService = FALSE],
     [PlainHandler EXCEPT !.RequestSizeLimit = 4, !.HistorySizeLimit = 1]}

\* the query of a request: the values of each parameter, in order
NoQuery ==
    [writepv |-> <<>>, format |-> <<>>, begin |-> <<>>, end |-> <<>>, limit |-> <<>>,
     path |-> <<>>]
IntText(n) == [ok |-> TRUE, n |-> n]
BadText    == [ok |-> FALSE, n |-> 0]
Range      == [NoQuery EXCEPT !.begin = <<IntText(1)>>, !.end = <<IntText(2)>>]
Queries ==
    {NoQuery,
     [NoQuery EXCEPT !.writepv = <<<<"x">>>>],
     [NoQuery EXCEPT !.writepv = <<<<"{", "m", "}">>>>],
     [NoQuery EXCEPT !.writepv = <<<<>>>>],
     [NoQuery EXCEPT !.format = <<"simple">>],
     Range,
     [NoQuery EXCEPT !.begin = <<IntText(1)>>],
     [NoQuery EXCEPT !.end = <<BadText>>],
     [Range EXCEPT !.limit = <<IntText(1)>>],
     [Range EXCEPT !.limit = <<IntText(0)>>],
     [Range EXCEPT !.limit = <<IntText(-1)>>],
     [Range EXCEPT !.limit = <<BadText>>],
     [Range EXCEPT !.limit = <<IntText(defaultHistorySizeLimit + 1)>>],
     [Range EXCEPT !.limit = <<IntText(1), IntText(1)>>],
     [NoQuery EXCEPT !.path = <<<<Slash, "p">>>>],
     [NoQuery EXCEPT !.path = <<<<Slash, "p">>, <<Slash, "q">>>>]}

\* the bodies of the PUT requests: every WireHist up to MaxHist entries for
\* the ~hist paths, and a few bodies of each kind for every path
HistBodies ==
    {HistBody([Times |-> t, Values |-> v, States |-> st]) :
        t \in SeqUpTo({1, 2}, MaxHist), v \in SeqUpTo({JsonOne}, MaxHist),
        st \in SeqUpTo({0}, MaxHist)}
CommonBodies ==
    {BytesBody(<<>>), BytesBody(<<"{", "}">>), BytesBody(<<"{", "m", "}">>),
     BytesBody(<<"{", "m", "}", " ", "x">>),
     PaddedBody(<<"{", "}">>, 2), PaddedBody(<<"{", "}">>, defaultRequestSizeLimit - 2),
     PaddedBody(<<"{", "}">>, defaultRequestSizeLimit - 1),
     HistBody([Times |-> <<1>>, Values |-> <<JsonOne>>, States |-> <<0>>]),
     ExgBody(EmptyWireExg),
     ExgBody([WritePVs  |-> <<[path |-> "/a", pv |-> [ts |-> 1, v |-> "7", s |-> 0]]>>,
              ReadPaths |-> <<"/a">>])}
BodiesFor(p) == CommonBodies \cup (IF Base(p) = <<HistMarker>> THEN HistBodies ELSE {})

Requests ==
    {[Method |-> "GET", Path |-> p, Query |-> q, Body |-> BytesBody(<<>>)] :
        p \in UrlPaths, q \in Queries}
    \cup {[Method |-> "PUT", Path |-> pb[1], Query |-> NoQuery, Body |-> pb[2]] :
        pb \in UNION {{<<p, b>> : b \in BodiesFor(p)} : p \in UrlPaths}}
    \cup {[Method |-> m, Path |-> p, Query |-> NoQuery, Body |-> BytesBody(<<>>)] :
        m \in {"DELETE", "POST"}, p \in UrlPaths}

\* what a function of the service stub returns: no error or a veap.Error,
\* created for WriteProperties, whether json.Marshal can encode the values
\* it returns, and the links of ReadProperties and Query
ServiceResults ==
    [err : {Nil, NewErrorf(StatusForbidden, <<"Forbidden">>)},
     created : BOOLEAN, encodable : BOOLEAN, links : ServiceLinkLists]

\* the calls cs of the handler as the service stub saw them, with what it
\* returned
Logged(cs, res) ==
    [i \in 1..Len(cs) |->
        [op |-> cs[i].op, path |-> cs[i].path, arg |-> cs[i].arg, err |-> res.err,
         created |-> res.created, encodable |-> res.encodable, links |-> res.links]]

\* ServeHTTP has served req: r is what it did
Serves(req, res, r) ==
    /\ request' = req
    /\ response' = r.response
    /\ action' = r.action
    /\ backend' = Logged(r.calls, res)

\* Handler.ServeHTTP serves a request
ServeHTTP ==
    /\ request = Nil
    /\ \E req \in Requests, now \in Clock, res \in ServiceResults :
          Serves(req, res, HandlerServeHTTP(handler, req, now, res))
    /\ UNCHANGED <<handler, statsVars, metaVars, exgVars, codecVars>>

\* the response is sent; the handler waits for the next request
HttpDone ==
    /\ request # Nil
    /\ request' = Nil
    /\ response' = Nil
    /\ backend' = <<>>
    /\ action' = "none"
    /\ UNCHANGED <<handler, statsVars, metaVars, exgVars, codecVars>>

(***************************************************************************)
(* SpecStats: MaxRequests goroutines serve one request each through the    *)
(* same Handler.  A step of a goroutine is ServeHTTP up to and with its    *)
(* next access to Handler.Stats or to the connection.  Of a request only   *)
(* what the counters see is kept: whether its path has the prefix, the     *)
(* length of its body, whether it ends on an error path and the length of  *)
(* the response body.                                                      *)
(***************************************************************************)
Goroutines == 1..MaxRequests

ZeroStats == [Requests |-> 0, RequestBytes |-> 0, ResponseBytes |-> 0, ErrorResponses |-> 0]

\* a goroutine: pc is its position, prefix and bodyLen the request it has
\* to receive, the other fields what it did so far: the bytes of the body
\* it read, the path it ends on, the length of the response body and
\* whether the connection took it
NotServing ==
    [pc |-> "idle", prefix |-> TRUE, bodyLen |-> 0, read |-> 0, failed |-> FALSE,
     respLen |-> 0, written |-> FALSE]

\* the handler of SpecStats: bodies of MaxLen bytes are too long
StatsHandler == [PlainHandler EXCEPT !.RequestSizeLimit = MaxLen - 1]

\* A variant of AtomicAdd that loses the increment when the counter is not 0.
AtomicAdd_Lost(counter, delta) == IF counter = 0 THEN delta ELSE counter

\* atomic.AddUint64(&counter, delta): the new value of the counter
AtomicAdd(counter, delta) == counter + delta

\* ServeHTTP up to "update statistics" (Requests)
StatsEnter(g) ==
    /\ serving[g].pc = "idle"
    /\ \E prefix \in BOOLEAN, len \in 0..MaxLen :
          serving' = [serving EXCEPT ![g] = [@ EXCEPT !.pc = "entered", !.prefix = prefix,
                                                      !.bodyLen = len]]
    /\ stats' = [stats EXCEPT !.Requests = AtomicAdd(@, 1)]
    /\ UNCHANGED <<request, response, backend, action, handler, metaVars, exgVars,
                   codecVars>>

\* ServeHTTP from "remove prefix" to "update statistics" (RequestBytes)
StatsReceive(g) ==
    /\ serving[g].pc = "entered"
    /\ IF ~serving[g].prefix \/ serving[g].bodyLen > requestSizeLimit(handler)
       THEN /\ serving' = [serving EXCEPT ![g] = [NotServing EXCEPT !.pc = "error",
                                                                    !.failed = TRUE]]
            /\ UNCHANGED stats
       ELSE /\ serving' = [serving EXCEPT ![g] = [NotServing EXCEPT !.pc = "received",
                                                                    !.read = serving[g].bodyLen]]
            /\ stats' = [stats EXCEPT !.RequestBytes = AtomicAdd(@, serving[g].bodyLen)]
    /\ UNCHANGED <<request, response, backend, action, handler, metaVars, exgVars,
                   codecVars>>

\* ServeHTTP from "dispatch VEAP service" to "update statistics"
\* (ResponseBytes): the serve function fails, or returns respBytes
StatsDispatch(g) ==
    /\ serving[g].pc = "received"
    /\ \/ /\ serving' = [serving EXCEPT ![g] = [@ EXCEPT !.pc = "error", !.failed = TRUE]]
          /\ UNCHANGED stats
       \/ \E len \in 0..MaxLen :
             /\ serving' = [serving EXCEPT ![g] = [@ EXCEPT !.pc = "send", !.respLen = len]]
             /\ stats' = [stats EXCEPT !.ResponseBytes = AtomicAdd(@, len)]
    /\ UNCHANGED <<request, response, backend, action, handler, metaVars, exgVars,
                   codecVars>>

\* ServeHTTP, "send OK response": the connection takes the response or not
StatsSend(g) ==
    /\ serving[g].pc = "send"
    /\ \E ok \in BOOLEAN :
          serving' = [serving EXCEPT ![g] = [@ EXCEPT !.pc = "done", !.written = ok]]
    /\ UNCHANGED <<stats, request, response, backend, action, handler, metaVars, exgVars,
                   codecVars>>

\* errorResponse up to "send error": when the connection does not take
\* the response, errorResponse returns
StatsSendError(g) ==
    /\ serving[g].pc = "error"
    /\ \E len \in 1..MaxLen, ok \in BOOLEAN :
          serving' = [serving EXCEPT ![g] = [@ EXCEPT !.pc = IF ok THEN "sent" ELSE "done",
                                                      !.respLen = len, !.written = ok]]
    /\ UNCHANGED <<stats, request, response, backend, action, handler, metaVars, exgVars,
                   codecVars>>

\* errorResponse, "update statistics": ErrorResponses
StatsCountError(g) ==
    /\ serving[g].pc = "sent"
    /\ serving' = [serving EXCEPT ![g] = [@ EXCEPT !.pc = "counted"]]
    /\ stats' = [stats EXCEPT !.ErrorResponses = AtomicAdd(@, 1)]
    /\ UNCHANGED <<request, response, backend, action, handler, metaVars, exgVars,
                   codecVars>>

\* errorResponse, "update statistics": ResponseBytes
StatsCountErrorBytes(g) ==
    /\ serving[g].pc = "counted"
    /\ serving' = [serving EXCEPT ![g] = [@ EXCEPT !.pc = "done"]]
    /\ stats' = [stats EXCEPT !.ResponseBytes = AtomicAdd(@, serving[g].respLen)]
    /\ UNCHANGED <<request, response, backend, action, handler, metaVars, exgVars,
                   codecVars>>

StatsIdle == stats = ZeroStats /\ serving = [g \in Goroutines |-> NotServing]
\* no ExgData batch in progress, the backend as TestExgData creates it
BatchIdle ==
    [pc |-> "idle", i |-> 1, writePVs |-> <<>>, readPaths |-> <<>>,
     writeErrors |-> <<>>, readResults |-> <<>>]
ConcIdle ==
    /\ concBatch = [b \in {1, 2} |-> BatchIdle]
    /\ concStore = InitVars
    /\ concCalls = <<>>
ClientIdle == clientOp = "none" /\ clientIn = Nil /\ clientOut = Nil /\ ConcIdle
MetaIdle == metaOp = "none" /\ metaIn = Nil /\ metaOut = Nil /\ ClientIdle

(***************************************************************************)
(* BasicMetaService: ReadProperties and Query (SpecMeta). A backend is a   *)
(* function from the paths of its objects to their attributes and links;   *)
(* object identifiers are one token long.                                  *)
(***************************************************************************)
MaxPatternSegs == 2
MaxLinks == 2

ServiceMarker == "~service"

Link(role, target, title) == [Role |-> role, Target |-> target, Title |-> title]

\* the two links BasicMetaService.ReadProperties adds to the root
ExgDataLink == Link(ServiceMarker, <<ExgDataMarker>>, "ExgData Service")
QueryLink   == Link(ServiceMarker, <<QueryMarker>>, "Search Service")

ObjectNotFound == NewErrorf(StatusNotFound, <<"Not found">>)

Properties(attr, links, err) == [attr |-> attr, links |-> links, err |-> err]

\* Service.ReadProperties of a backend t
ServiceReadProperties(t, p) ==
    IF p \in DOMAIN t THEN Properties(t[p].attr, t[p].links, Nil)
    ELSE Properties(Nil, <<>>, ObjectNotFound)

\* BasicMetaService.ReadProperties, on the result props of the backend
ReadPropertiesOf_OneLink(p, props) ==
    IF p # <<Slash>> \/ props.err # Nil THEN props
    ELSE Properties(props.attr, props.links \o <<ExgDataLink>>, props.err)

ReadPropertiesOf(p, props) ==
    IF p # <<Slash>> \/ props.err # Nil THEN props
    ELSE Properties(props.attr, props.links \o <<ExgDataLink, QueryLink>>, props.err)

\* BasicMetaService.ReadProperties on the backend t
ReadProperties(t, p) == ReadPropertiesOf(p, ServiceReadProperties(t, p))

\* path.Join(a, b) of two non-empty paths
Join(a, b) == Clean(a \o <<Slash>> \o b)

\* childPaths(objPath, links)
RECURSIVE childPaths_AnyTarget(_, _)
childPaths_AnyTarget(objPath, links) ==
    IF links = <<>> THEN <<>>
    ELSE LET link == Head(links)
             linkPath == IF IsAbs(link.Target) THEN link.Target
                         ELSE Join(objPath, link.Target)
         IN  (IF link.Role = ServiceMarker THEN <<>> ELSE <<linkPath>>)
             \o childPaths_AnyTarget(objPath, Tail(links))

RECURSIVE childPaths(_, _)
childPaths(objPath, links) ==
    IF links = <<>> THEN <<>>
    ELSE LET link == Head(links)
             linkPath == IF IsAbs(link.Target) THEN link.Target
                         ELSE Join(objPath, link.Target)
         IN  (IF link.Role = ServiceMarker \/ Dir(linkPath) # objPath THEN <<>>
              ELSE <<linkPath>>)
             \o childPaths(objPath, Tail(links))

\* strings.Cut(s, "/")
RECURSIVE FirstSlash(_)
FirstSlash(s) ==
    IF s = <<>> THEN 0
    ELSE IF Head(s) = Slash THEN 1
    ELSE IF FirstSlash(Tail(s)) = 0 THEN 0
    ELSE FirstSlash(Tail(s)) + 1

\* A variant of Cut that keeps a segment * for the levels below.
Cut_KeepStar(s) ==
    IF s # <<>> /\ Head(s) = "*" THEN [before |-> <<"*">>, after |-> s]
    ELSE IF FirstSlash(s) = 0 THEN [before |-> s, after |-> <<>>]
    ELSE [before |-> SubSeq(s, 1, FirstSlash(s) - 1),
          after |-> SubSeq(s, FirstSlash(s) + 1, Len(s))]

Cut(s) ==
    IF FirstSlash(s) = 0 THEN [before |-> s, after |-> <<>>]
    ELSE [before |-> SubSeq(s, 1, FirstSlash(s) - 1),
          after |-> SubSeq(s, FirstSlash(s) + 1, Len(s))]

\* url.PathUnescape: "%62" is the escape of "b" and "%2F" the one of "/",
\* "%zz" is no escape
Unescaped(tok) == IF tok = "%62" THEN "b" ELSE IF tok = "%2F" THEN Slash ELSE tok

PathUnescape(s) ==
    IF \E i \in 1..Len(s) : s[i] = "%zz"
    THEN [s |-> <<>>, err |-> GoError("invalid URL escape")]
    ELSE [s |-> [i \in 1..Len(s) |-> Unescaped(s[i])], err |-> Nil]

\* path.Match: "*" is any run of non-slash tokens, "?" one of them, "[ab]"
\* one of a and b; a "[" without its end is a malformed pattern
RECURSIVE matchChunks(_, _)
matchChunks(pattern, name) ==
    IF pattern = <<>> THEN name = <<>>
    ELSE IF Head(pattern) = "*"
    THEN \E k \in 0..Len(name) :
            /\ \A i \in 1..k : name[i] # Slash
            /\ matchChunks(Tail(pattern), SubSeq(name, k + 1, Len(name)))
    ELSE IF name = <<>> THEN FALSE
    ELSE /\ CASE Head(pattern) = "?"    -> Head(name) # Slash
              [] Head(pattern) = "[ab]" -> Head(name) \in {"a", "b"}
              [] OTHER                  -> Head(name) = Head(pattern)
         /\ matchChunks(Tail(pattern), Tail(name))

ErrBadPattern == GoError("syntax error in pattern")

Match(pattern, name) ==
    IF \E i \in 1..Len(pattern) : pattern[i] = "["
    THEN [matched |-> FALSE, err |-> ErrBadPattern]
    ELSE [matched |-> matchChunks(pattern, name), err |-> Nil]

QueryResult(p, props) == [Path |-> p, Attributes |-> props.attr, Links |-> props.links]

\* what a traversal hands back: the items handled, the error, and how deep
\* the calls of traverseTree were nested
Traversed(results, err, depth) == [results |-> results, err |-> err, depth |-> depth]

Max(a, b) == IF a >= b THEN a ELSE b

InvalidContent(rawPattern, err) ==
    NewErrorf(StatusBadRequest,
              <<"Invalid content in URL parameter ~path for query service", rawPattern, err>>)

InvalidIdentifier(ident, err) ==
    NewErrorf(StatusInternalServerError, <<"Invalid identifier for object", ident, err>>)

\* traverseTree(service, pathPattern, startPath, handle): the items handed
\* to handle, and the error returned; traverseChildren is its loop over the
\* child paths, with the items handled so far and the depth of the calls
\* so far, the one of the loop included
RECURSIVE traverseTree(_, _, _)
RECURSIVE traverseChildren(_, _, _, _, _, _, _)
traverseChildren(t, rawPattern, pattern, pathPattern, children, handled, depth) ==
    IF children = <<>> THEN Traversed(handled, Nil, depth)
    ELSE LET childPath == Head(children)
             childIdent == PathUnescape(Base(childPath))
             matches == Match(pattern, childIdent.s)
             below == traverseTree(t, pathPattern, childPath)
         IN  IF childIdent.err # Nil
             THEN Traversed(handled, InvalidIdentifier(Base(childPath), childIdent.err),
                            depth)
             ELSE IF matches.err # Nil
             THEN Traversed(handled, InvalidContent(rawPattern, matches.err), depth)
             ELSE IF ~matches.matched
             THEN traverseChildren(t, rawPattern, pattern, pathPattern, Tail(children),
                                   handled, depth)
             ELSE IF below.err # Nil
             THEN Traversed(handled \o below.results, below.err,
                            Max(depth, 1 + below.depth))
             ELSE traverseChildren(t, rawPattern, pattern, pathPattern, Tail(children),
                                   handled \o below.results, Max(depth, 1 + below.depth))

traverseTree(t, pathPattern, startPath) ==
    LET props == ReadProperties(t, startPath)
        cut == Cut(pathPattern)
        pattern == PathUnescape(cut.before)
    IN  IF props.err # Nil THEN Traversed(<<>>, props.err, 1)
        ELSE IF pathPattern = <<>>
        THEN Traversed(<<QueryResult(startPath, props)>>, Nil, 1)
        ELSE IF pattern.err # Nil
        THEN Traversed(<<>>, InvalidContent(cut.before, pattern.err), 1)
        ELSE traverseChildren(t, cut.before, pattern.s, cut.after,
                              childPaths(startPath, props.links), <<>>, 1)

\* BasicMetaService.Query: the loop over the path patterns, with the
\* results so far; the nil slice returned with an error is the empty sequence
RECURSIVE QueryFrom(_, _, _, _)
QueryFrom(t, pathPatterns, results, depth) ==
    IF pathPatterns = <<>> THEN Traversed(results, Nil, depth)
    ELSE LET found == traverseTree(t, TrimPrefix(Head(pathPatterns), <<Slash>>),
                                   <<Slash>>)
         IN  IF found.err # Nil THEN Traversed(<<>>, found.err, Max(depth, found.depth))
             ELSE QueryFrom(t, Tail(pathPatterns), results \o found.results,
                            Max(depth, found.depth))

Query(t, pathPatterns) == QueryFrom(t, pathPatterns, <<>>, 0)

\* ---- the backends and the inputs of SpecMeta
Object(attr, links) == [attr |-> attr, links |-> links]
Attr(name) == [name |-> name]

A   == <<Slash, "a">>
B   == <<Slash, "%62">>
AA  == <<Slash, "a", Slash, "a">>
AB  == <<Slash, "a", Slash, "%62">>
C   == <<Slash, "c">>

\* a root without children
BareTree == (<<Slash>> :> Object(Attr("root"), <<>>))

\* two levels; the root links to its children by relative paths, /a links to
\* its children by absolute paths, to its parent and to the other child of
\* the root
FullTree ==
    (<<Slash>> :> Object(Attr("root"),
                         <<Link("child", <<"a">>, "a"), Link("child", <<"%62">>, "b")>>))
    @@ (A :> Object(Attr("a"),
                    <<Link("parent", <<"..">>, "root"), Link("child", AA, "aa"),
                      Link("sibling", B, "b"), Link("child", AB, "ab")>>))
    @@ (B :> Object(Attr("b"), <<Link("parent", <<"..">>, "root")>>))
    @@ (AA :> Object(Attr("aa"), <<>>))
    @@ (AB :> Object(Attr("ab"), <<>>))

\* FullTree after the object /c is gone while the root still links to it
DanglingTree ==
    [FullTree EXCEPT ![<<Slash>>] =
        Object(Attr("root"),
               <<Link("child", <<"a">>, "a"), Link("child", <<"c">>, "c"),
                 Link("child", <<"%62">>, "b")>>)]

\* FullTree with cycles: the root and /a link to themselves, /a/a links
\* back to /a and to the root
CyclicTree ==
    [FullTree EXCEPT
        ![<<Slash>>] = Object(Attr("root"),
                              <<Link("self", <<".">>, "root"), Link("child", <<"a">>, "a"),
                                Link("self", <<Slash>>, "root")>>),
        ![A] = Object(Attr("a"),
                      <<Link("self", <<".">>, "a"), Link("self", A, "a"),
                        Link("child", AA, "aa")>>),
        ![AA] = Object(Attr("aa"),
                       <<Link("parent", A, "a"), Link("root", <<Slash>>, "root"),
                         Link("parent", <<"..">>, "a")>>)]

Trees == {BareTree, FullTree, DanglingTree, CyclicTree}

SegmentPatterns == {"a", "x", "%62", "%2F", "*", "[ab]", "[", "%zz"}

\* the patterns of n segments, without the leading slash
RECURSIVE PatternsOf(_)
PatternsOf(n) ==
    IF n = 1 THEN {<<s>> : s \in SegmentPatterns}
    ELSE {<<s, Slash>> \o p : s \in SegmentPatterns, p \in PatternsOf(n - 1)}

RelPatterns == {<<>>} \cup UNION {PatternsOf(n) : n \in 1..MaxPatternSegs}
PathPatterns == RelPatterns \cup {<<Slash>> \o p : p \in RelPatterns}

\* the requests: no pattern, one pattern, or one followed by a short one
SecondPatterns == {<<Slash, "a">>, <<"*">>, <<"[">>}
PatternLists ==
    {<<>>} \cup {<<p>> : p \in PathPatterns}
    \cup {<<p, q>> : p \in PathPatterns, q \in SecondPatterns}

\* the paths ReadProperties is asked for
MetaPaths == {<<Slash>>, A, B, AA, C}

\* what a backend answers to ReadProperties
BackendLinks == {<<>>, <<Link("child", <<"a">>, "a")>>,
                 <<Link("child", <<"a">>, "a"), Link("child", <<"%62">>, "b")>>}
BackendProperties ==
    {Properties(Attr("x"), links, Nil) : links \in BackendLinks}
    \cup {Properties(Nil, <<>>, err) :
            err \in {ObjectNotFound, NewErrorf(StatusForbidden, <<"Forbidden">>)}}
    \cup {Properties(Attr("x"), links, NewErrorf(StatusForbidden, <<"Forbidden">>)) :
            links \in BackendLinks \ {<<>>}}

\* the arguments of childPaths: the paths of objects, and up to MaxLinks
\* links with the targets of TestChildPaths, the object itself and the root
ObjectPaths == {<<Slash>>, A, AB}
LinkTargets ==
    {<<".">>, <<"..">>, <<"c">>, <<"c", Slash, "d">>, A \o <<Slash, "c2">>,
     <<"..", Slash, "a", Slash, "c3">>, <<Slash>>, A \o <<Slash>>, AB}
ChildLinks == {Link(role, target, "") : role \in {"child", ServiceMarker}, target \in LinkTargets}

\* a call of childPaths
MetaChildPaths ==
    /\ metaOp = "none"
    /\ \E objPath \in ObjectPaths, links \in SeqUpTo(ChildLinks, MaxLinks) :
        /\ metaIn' = [objPath |-> objPath, links |-> links]
        /\ metaOut' = childPaths(objPath, links)
    /\ metaOp' = "childPaths"
    /\ UNCHANGED <<request, response, backend, action, handler, statsVars, exgVars,
                   codecVars, clientVars>>

\* a call of BasicMetaService.ReadProperties
MetaReadProperties ==
    /\ metaOp = "none"
    /\ \E p \in MetaPaths, props \in BackendProperties :
        /\ metaIn' = [path |-> p, backend |-> props]
        /\ metaOut' = ReadPropertiesOf(p, props)
    /\ metaOp' = "ReadProperties"
    /\ UNCHANGED <<request, response, backend, action, handler, statsVars, exgVars,
                   codecVars, clientVars>>

\* a call of BasicMetaService.Query
MetaQuery ==
    /\ metaOp = "none"
    /\ \E t \in Trees, pathPatterns \in PatternLists :
        /\ metaIn' = [tree |-> t, pathPatterns |-> pathPatterns]
        /\ metaOut' = Query(t, pathPatterns)
    /\ metaOp' = "Query"
    /\ UNCHANGED <<request, response, backend, action, handler, statsVars, exgVars,
                   codecVars, clientVars>>

\* the call has returned
MetaDone ==
    /\ metaOp # "none"
    /\ metaOp' = "none" /\ metaIn' = Nil /\ metaOut' = Nil
    /\ UNCHANGED <<request, response, backend, action, handler, statsVars, exgVars,
                   codecVars, clientVars>>

(***************************************************************************)
(* SpecClient: the Client receives the response to a request of one of its *)
(* operations, and builds the URL of ReadHistory.  Of the body of an OK    *)
(* response the model keeps whether it decodes.                            *)
(***************************************************************************)
defaultResponseSizeLimit == 1048576

\* Client.Init on a Client with the given ResponseSizeLimit
ClientInit(limit) ==
    [ResponseSizeLimit |-> IF limit = 0 THEN defaultResponseSizeLimit ELSE limit]

\* the clients: the default limit and a limit of MaxLen bytes
Clients == {ClientInit(0), ClientInit(MaxLen)}

\* Client.readLimited: at most ResponseSizeLimit + 1 bytes are read, and a
\* body of that many is too long
readLimited(c, body) ==
    IF BodyLen(body) >= c.ResponseSizeLimit + 1
    THEN [data |-> BytesBody(<<>>),
          err  |-> GoError(<<"Response size limit exceeded", c.ResponseSizeLimit>>)]
    ELSE [data |-> body, err |-> Nil]

\* veap.NewErrorf(resp.StatusCode, "Received HTTP status: %d (%s)", ...)
ReceivedStatus(code, respBytes) ==
    NewErrorf(code, <<"Received HTTP status", code, respBytes>>)

\* what an operation of the client returns
Returned(err, created) == [err |-> err, created |-> created]

\* the operations that read the body before they look at the status
ReadingOps == {"ReadPV", "ReadHistory", "ReadProperties", "ExgData", "Query"}
\* the operations that read the body only of a response they refuse
WritingOps == {"WritePV", "WriteHistory", "WriteProperties", "Delete"}

\* the decoding of the body of an OK response
DecodeError(op, respBytes) ==
    IF op = "ReadPV"
    THEN IF BytesToPV(respBytes.payload, FALSE, 0).err # Nil
         THEN NewErrorf(StatusClientError, <<"Conversion of JSON to PV failed">>)
         ELSE Nil
    ELSE IF JsonUnmarshal(respBytes.payload).err # Nil
    THEN NewErrorf(StatusClientError, <<"Invalid JSON">>)
    ELSE Nil

\* ReadPV, ReadHistory, ReadProperties, ExgData and Query from the response
\* on
ClientRead(c, op, resp) ==
    IF readLimited(c, resp.Body).err # Nil
    THEN Returned(NewErrorf(StatusClientError, readLimited(c, resp.Body).err.msg), FALSE)
    ELSE IF resp.StatusCode # StatusOK
    THEN Returned(ReceivedStatus(resp.StatusCode, readLimited(c, resp.Body).data), FALSE)
    ELSE Returned(DecodeError(op, readLimited(c, resp.Body).data), FALSE)

\* A variant of ClientWrite that takes every status but 200 for an error.
ClientWrite_OnlyOK(c, op, resp) ==
    IF resp.StatusCode # StatusOK
    THEN Returned(ReceivedStatus(resp.StatusCode, readLimited(c, resp.Body).data), FALSE)
    ELSE Returned(Nil, FALSE)

\* WritePV, WriteHistory, WriteProperties and Delete from the response on
ClientWrite(c, op, resp) ==
    IF /\ resp.StatusCode # StatusOK
       /\ ~(op = "WriteProperties" /\ resp.StatusCode = StatusCreated)
    THEN Returned(ReceivedStatus(resp.StatusCode, readLimited(c, resp.Body).data), FALSE)
    ELSE Returned(Nil, op = "WriteProperties" /\ resp.StatusCode = StatusCreated)

\* Time.Truncate(d): down to a multiple of d
Truncate(t, d) == t - (t % d)

\* A variant of HistoryParam that rounds down.
HistoryParam_Floor(t) == Quot(UnixNano(Truncate(t, NanosPerMilli)), NanosPerMilli)

\* Client.ReadHistory, "move timestamps to next millisecond" and the
\* parameter of the URL
HistoryParam(t) == Quot(UnixNano(Truncate(t + (NanosPerMilli - 1), NanosPerMilli)), NanosPerMilli)

\* the responses: the statuses of the server and bodies around the limits
StatusCodes == {StatusOK, StatusCreated, StatusBadRequest, StatusNotFound,
                StatusInternalServerError}
ResponseBodies ==
    {BytesBody(<<>>), BytesBody(<<"{", "}">>), BytesBody(<<"x">>),
     PaddedBody(<<"{", "}">>, MaxLen - 2), PaddedBody(<<"{", "}">>, MaxLen - 1),
     PaddedBody(<<"{", "}">>, defaultResponseSizeLimit - 2),
     PaddedBody(<<"{", "}">>, defaultResponseSizeLimit - 1)}
Responses == [StatusCode : StatusCodes, Body : ResponseBodies]

\* the instants ReadHistory is called with
ClientTimes ==
    WholeMsTimes \cup OtherTimes
    \cup {MinInt, -MaxMs * NanosPerMilli - 1, MaxMs * NanosPerMilli - 1,
          MaxMs * NanosPerMilli + 1, MaxInt}

\* an operation of the client receives the response to its request
ClientReceive ==
    /\ clientOp = "none"
    /\ \E c \in Clients, op \in ReadingOps \cup WritingOps, resp \in Responses :
        /\ clientOp' = op
        /\ clientIn' = [client |-> c, resp |-> resp]
        /\ clientOut' = IF op \in ReadingOps THEN ClientRead(c, op, resp)
                        ELSE ClientWrite(c, op, resp)
    /\ UNCHANGED <<metaOp, metaIn, metaOut, request, response, backend, action, handler,
                   statsVars, exgVars, codecVars, concVars>>

\* Client.ReadHistory builds the URL of its request
ClientReadHistory ==
    /\ clientOp = "none"
    /\ \E begin \in ClientTimes, end \in ClientTimes :
        /\ clientIn' = [begin |-> begin, end |-> end]
        /\ clientOut' = [begin |-> HistoryParam(begin), end |-> HistoryParam(end)]
    /\ clientOp' = "ReadHistoryURL"
    /\ UNCHANGED <<metaOp, metaIn, metaOut, request, response, backend, action, handler,
                   statsVars, exgVars, codecVars, concVars>>

\* the operation has returned
ClientDone ==
    /\ clientOp # "none"
    /\ clientOp' = "none" /\ clientIn' = Nil /\ clientOut' = Nil
    /\ UNCHANGED <<metaOp, metaIn, metaOut, request, response, backend, action, handler,
                   statsVars, exgVars, codecVars, concVars>>

(***************************************************************************)
(* SpecConc: two ExgData batches that the HTTP server runs in goroutines   *)
(* of their own against one backend.  Nothing in ServeHTTP, serveExgData   *)
(* or BasicMetaService.ExgData holds a lock, so the steps of the two       *)
(* batches interleave at the backend calls; a backend call is one step.    *)
(***************************************************************************)
\* longest writePVs / readPaths list of a concurrent batch
MaxConc == 1
\* the two requests in progress
Batches == {1, 2}
\* the paths the concurrent batches name; the backend knows the first
ConcPaths == {"/a", "/x"}
\* the PV a batch writes: each client sends a value of its own
ConcPV(b) == [Time |-> b * NanosPerMilli, Value |-> IF b = 1 THEN "7" ELSE "42", State |-> 0]
\* the arguments of ExgData for batch b
ConcParams(b) ==
    [writePVs  : SeqUpTo([Path : ConcPaths, PV : {ConcPV(b)}], MaxConc),
     readPaths : SeqUpTo(ConcPaths, MaxConc)]

\* the number of iterations of the loop batch b is in
ConcLoopLen(b) ==
    IF concBatch[b].pc = "write" THEN Len(concBatch[b].writePVs)
    ELSE Len(concBatch[b].readPaths)

\* a request arrives: serveExgData decodes the parameters and enters ExgData
ConcBegin ==
    /\ \E b \in Batches :
         /\ concBatch[b].pc = "idle"
         /\ \E p \in ConcParams(b) :
              concBatch' = [concBatch EXCEPT ![b] =
                  [pc |-> ExgLoopAfter("begin"), i |-> 1,
                   writePVs |-> p.writePVs, readPaths |-> p.readPaths,
                   writeErrors |-> [i \in 1..Len(p.writePVs) |-> Nil],
                   readResults |-> [i \in 1..Len(p.readPaths) |->
                                       [PV |-> ZeroPV, Error |-> Nil]]]]
    /\ UNCHANGED <<concStore, concCalls, clientOp, clientIn, clientOut,
                   metaOp, metaIn, metaOut, request, response, backend, action, handler,
                   statsVars, exgVars, codecVars>>

\* one iteration of the write loop of a batch: writeErrors[i] = m.WritePV(...)
ConcWritePV ==
    /\ \E b \in Batches :
         /\ concBatch[b].pc = "write"
         /\ concBatch[b].i <= Len(concBatch[b].writePVs)
         /\ LET w   == concBatch[b].writePVs[concBatch[b].i]
                err == BackendWritePV(concStore, w.Path) IN
            /\ concCalls' = Append(concCalls, [batch |-> b, op |-> "WritePV",
                                               path |-> w.Path, pv |-> w.PV, err |-> err])
            /\ concStore' = BackendStore(concStore, w.Path, w.PV)
            /\ concBatch' = [concBatch EXCEPT ![b].writeErrors[concBatch[b].i] = err,
                                              ![b].i = @ + 1]
    /\ UNCHANGED <<clientOp, clientIn, clientOut,
                   metaOp, metaIn, metaOut, request, response, backend, action, handler,
                   statsVars, exgVars, codecVars>>

\* one iteration of the read loop of a batch: readResults[i] = ReadPVResult{pv, err}
ConcReadPV ==
    /\ \E b \in Batches :
         /\ concBatch[b].pc = "read"
         /\ concBatch[b].i <= Len(concBatch[b].readPaths)
         /\ LET path == concBatch[b].readPaths[concBatch[b].i]
                r    == BackendReadPV(concStore, path) IN
            /\ concCalls' = Append(concCalls, [batch |-> b, op |-> "ReadPV",
                                               path |-> path, pv |-> r.PV, err |-> r.Error])
            /\ concBatch' = [concBatch EXCEPT ![b].readResults[concBatch[b].i] = r,
                                              ![b].i = @ + 1]
    /\ UNCHANGED <<concStore, clientOp, clientIn, clientOut,
                   metaOp, metaIn, metaOut, request, response, backend, action, handler,
                   statsVars, exgVars, codecVars>>

\* a loop of a batch is through: on to the next loop, or return
ConcLoopDone ==
    /\ \E b \in Batches :
         /\ concBatch[b].pc \in {"write", "read"}
         /\ concBatch[b].i > ConcLoopLen(b)
         /\ concBatch' = [concBatch EXCEPT ![b].pc = ExgLoopAfter(@), ![b].i = 1]
    /\ UNCHANGED <<concStore, concCalls, clientOp, clientIn, clientOut,
                   metaOp, metaIn, metaOut, request, response, backend, action, handler,
                   statsVars, exgVars, codecVars>>

\* both requests are answered; the next test sets up server and backend anew
ConcEnd ==
    /\ \A b \in Batches : concBatch[b].pc = "returned"
    /\ concBatch' = [b \in Batches |-> BatchIdle]
    /\ concStore' = InitVars
    /\ concCalls' = <<>>
    /\ UNCHANGED <<clientOp, clientIn, clientOut,
                   metaOp, metaIn, metaOut, request, response, backend, action, handler,
                   statsVars, exgVars, codecVars>>

\* the variables of the other specifications, at rest
CodecIdle == codecOp = "none" /\ codecIn = Nil /\ codecOut = Nil
HttpIdle ==
    /\ request = Nil /\ response = Nil /\ backend = <<>> /\ action = "none"
    /\ handler = PlainHandler
    /\ StatsIdle
    /\ MetaIdle

\* the test server before a batch: the backend as TestExgData creates it
ExgIdle ==
    [exgPc |-> "idle", exgI |-> 1, exgReq |-> [WritePVs |-> <<>>, ReadPaths |-> <<>>],
     vars |-> InitVars, writePVs |-> <<>>, readPaths |-> <<>>, writeErrors |-> <<>>,
     readResults |-> <<>>, serviceError |-> Nil, calls |-> <<>>, exgResp |-> Nil,
     exgClient |-> Nil]

\* the test is over; the next one sets up server and backend anew
ExgEnd ==
    /\ exgPc = "received"
    /\ exgPc' = ExgIdle.exgPc
    /\ exgI' = ExgIdle.exgI
    /\ exgReq' = ExgIdle.exgReq
    /\ vars' = ExgIdle.vars
    /\ writePVs' = ExgIdle.writePVs
    /\ readPaths' = ExgIdle.readPaths
    /\ writeErrors' = ExgIdle.writeErrors
    /\ readResults' = ExgIdle.readResults
    /\ serviceError' = ExgIdle.serviceError
    /\ calls' = ExgIdle.calls
    /\ exgResp' = ExgIdle.exgResp
    /\ exgClient' = ExgIdle.exgClient
    /\ UNCHANGED <<codecVars, httpVars>>

InitExg ==
    /\ exgPc = ExgIdle.exgPc
    /\ exgI = ExgIdle.exgI
    /\ exgReq = ExgIdle.exgReq
    /\ vars = ExgIdle.vars
    /\ writePVs = ExgIdle.writePVs
    /\ readPaths = ExgIdle.readPaths
    /\ writeErrors = ExgIdle.writeErrors
    /\ readResults = ExgIdle.readResults
    /\ serviceError = ExgIdle.serviceError
    /\ calls = ExgIdle.calls
    /\ exgResp = ExgIdle.exgResp
    /\ exgClient = ExgIdle.exgClient
    /\ CodecIdle
    /\ HttpIdle

InitCodec ==
    /\ CodecIdle
    /\ HttpIdle
    /\ exgPc = ExgIdle.exgPc
    /\ exgI = ExgIdle.exgI
    /\ exgReq = ExgIdle.exgReq
    /\ vars = ExgIdle.vars
    /\ writePVs = ExgIdle.writePVs
    /\ readPaths = ExgIdle.readPaths
    /\ writeErrors = ExgIdle.writeErrors
    /\ readResults = ExgIdle.readResults
    /\ serviceError = ExgIdle.serviceError
    /\ calls = ExgIdle.calls
    /\ exgResp = ExgIdle.exgResp
    /\ exgClient = ExgIdle.exgClient

InitHttp ==
    /\ request = Nil /\ response = Nil /\ backend = <<>> /\ action = "none"
    /\ handler \in Handlers
    /\ StatsIdle
    /\ MetaIdle
    /\ CodecIdle
    /\ exgPc = ExgIdle.exgPc
    /\ exgI = ExgIdle.exgI
    /\ exgReq = ExgIdle.exgReq
    /\ vars = ExgIdle.vars
    /\ writePVs = ExgIdle.writePVs
    /\ readPaths = ExgIdle.readPaths
    /\ writeErrors = ExgIdle.writeErrors
    /\ readResults = ExgIdle.readResults
    /\ serviceError = ExgIdle.serviceError
    /\ calls = ExgIdle.calls
    /\ exgResp = ExgIdle.exgResp
    /\ exgClient = ExgIdle.exgClient

NextHttp ==
    \/ ServeHTTP
    \/ HttpDone

SpecHttp == InitHttp /\ [][NextHttp]_allVars

InitStats ==
    /\ request = Nil /\ response = Nil /\ backend = <<>> /\ action = "none"
    /\ handler = StatsHandler
    /\ StatsIdle
    /\ MetaIdle
    /\ CodecIdle
    /\ exgPc = ExgIdle.exgPc
    /\ exgI = ExgIdle.exgI
    /\ exgReq = ExgIdle.exgReq
    /\ vars = ExgIdle.vars
    /\ writePVs = ExgIdle.writePVs
    /\ readPaths = ExgIdle.readPaths
    /\ writeErrors = ExgIdle.writeErrors
    /\ readResults = ExgIdle.readResults
    /\ serviceError = ExgIdle.serviceError
    /\ calls = ExgIdle.calls
    /\ exgResp = ExgIdle.exgResp
    /\ exgClient = ExgIdle.exgClient

NextStats ==
    \E g \in Goroutines :
        \/ StatsEnter(g)
        \/ StatsReceive(g)
        \/ StatsDispatch(g)
        \/ StatsSend(g)
        \/ StatsSendError(g)
        \/ StatsCountError(g)
        \/ StatsCountErrorBytes(g)

SpecStats == InitStats /\ [][NextStats]_allVars

InitMeta ==
    /\ HttpIdle
    /\ CodecIdle
    /\ exgPc = ExgIdle.exgPc
    /\ exgI = ExgIdle.exgI
    /\ exgReq = ExgIdle.exgReq
    /\ vars = ExgIdle.vars
    /\ writePVs = ExgIdle.writePVs
    /\ readPaths = ExgIdle.readPaths
    /\ writeErrors = ExgIdle.writeErrors
    /\ readResults = ExgIdle.readResults
    /\ serviceError = ExgIdle.serviceError
    /\ calls = ExgIdle.calls
    /\ exgResp = ExgIdle.exgResp
    /\ exgClient = ExgIdle.exgClient

NextMeta ==
    \/ MetaChildPaths
    \/ MetaReadProperties
    \/ MetaQuery
    \/ MetaDone

SpecMeta == InitMeta /\ [][NextMeta]_allVars

InitClient == InitMeta

NextClient ==
    \/ ClientReceive
    \/ ClientReadHistory
    \/ ClientDone

SpecClient == InitClient /\ [][NextClient]_allVars

InitConc == InitMeta

NextConc ==
    \/ ConcBegin
    \/ ConcWritePV
    \/ ConcReadPV
    \/ ConcLoopDone
    \/ ConcEnd

SpecConc == InitConc /\ [][NextConc]_allVars

NextCodec ==
    \/ CodecRoundTripPV
    \/ CodecRoundTripHist
    \/ CodecBytesToPV
    \/ CodecWireToPV
    \/ CodecWireToHist
    \/ CodecParseTimeParam
    \/ CodecDone

SpecCodec == InitCodec /\ [][NextCodec]_allVars

NextExg ==
    \/ ExgBegin
    \/ ExgWritePV
    \/ ExgReadPV
    \/ ExgLoopDone
    \/ ExgReply
    \/ ClientExgData
    \/ ExgEnd

SpecExg == InitExg /\ [][NextExg]_allVars

(***************************************************************************)
(* Claims about ExgData.                                                   *)
(***************************************************************************)
\* the WritePV calls and the ReadPV calls of the batch, each in issue order
WriteCalls == SelectSeq(calls, LAMBDA c : c.op = "WritePV")
ReadCalls  == SelectSeq(calls, LAMBDA c : c.op = "ReadPV")
\* ExgData has returned
ExgReturned == exgPc \in {"returned", "replied", "received"}

\* C1: at every moment of a batch the backend calls issued so far are
\* WritePV calls for a prefix of writePVs, in list order, followed by ReadPV
\* calls for a prefix of readPaths, in list order; a ReadPV is issued only
\* when every WritePV of the batch has been issued, and at the return every
\* entry of both lists has been issued.
C1_WritesBeforeReads ==
    /\ calls = WriteCalls \o ReadCalls
    /\ Len(WriteCalls) <= Len(writePVs)
    /\ Len(ReadCalls) <= Len(readPaths)
    /\ \A k \in 1..Len(WriteCalls) :
          WriteCalls[k].path = writePVs[k].Path /\ WriteCalls[k].pv = writePVs[k].PV
    /\ \A k \in 1..Len(ReadCalls) : ReadCalls[k].path = readPaths[k]
    /\ (Len(ReadCalls) > 0 => Len(WriteCalls) = Len(writePVs))
    /\ (ExgReturned => Len(WriteCalls) = Len(writePVs) /\ Len(ReadCalls) = Len(readPaths))

\* a batch with two writes to different paths and two reads has returned
C1_Witness ==
    /\ exgPc = "returned"
    /\ Len(writePVs) = 2 /\ writePVs[1].Path # writePVs[2].Path
    /\ Len(readPaths) = 2 /\ readPaths[1] # readPaths[2]
    /\ Len(calls) = 4

\* C2: when ExgData has returned, writeErrors is as long as writePVs and
\* readResults as long as readPaths, whichever operations failed; the
\* response on the wire has the lengths of the request and each of its
\* readResults carries exactly one of pv / error; a client that receives a
\* response whose lengths differ from its request returns a ClientError.
C2_ResultLengths ==
    /\ ExgReturned =>
          /\ Len(writeErrors) = Len(writePVs)
          /\ Len(readResults) = Len(readPaths)
    /\ (exgPc \in {"replied", "received"} /\ exgResp.code = StatusOK) =>
          /\ Len(exgResp.body.WriteErrors) = Len(exgReq.WritePVs)
          /\ Len(exgResp.body.ReadResults) = Len(exgReq.ReadPaths)
          /\ \A j \in 1..Len(exgResp.body.ReadResults) :
                (exgResp.body.ReadResults[j].pv = Nil) #
                (exgResp.body.ReadResults[j].error = Nil)
    /\ (exgPc = "received" /\ exgClient.received.code = StatusOK) =>
          ((\/ Len(exgClient.received.body.WriteErrors) # Len(exgReq.WritePVs)
            \/ Len(exgClient.received.body.ReadResults) # Len(exgReq.ReadPaths))
           <=> (/\ exgClient.serviceError # Nil
                /\ exgClient.serviceError.code = StatusClientError))

\* a batch in which a write and a read failed and a write and a read
\* succeeded was answered, and the client received a response that lacks a
\* write error
C2_Witness ==
    /\ exgPc = "received"
    /\ Len(writePVs) = 2 /\ Len(readPaths) = 2
    /\ \E i, k \in 1..2 : writeErrors[i] # Nil /\ writeErrors[k] = Nil
    /\ \E i, k \in 1..2 : readResults[i].Error # Nil /\ readResults[k].Error = Nil
    /\ Len(exgClient.received.body.WriteErrors) = 1
    /\ exgClient.serviceError # Nil

\* C3: when ExgData has returned, every write and every read of the batch
\* was executed against the backend although earlier ones failed; what the
\* backend answered to write i stands at writeErrors[i] and what it answered
\* to read j at readResults[j].Error (a failure exactly for the paths the
\* backend does not know); serviceError is nil and the response is 200.
C3_ErrorsPositional ==
    ExgReturned =>
        /\ serviceError = Nil
        /\ Len(WriteCalls) = Len(writePVs)
        /\ Len(ReadCalls) = Len(readPaths)
        /\ \A i \in 1..Len(writePVs) :
              /\ i <= Len(writeErrors)
              /\ writeErrors[i] = WriteCalls[i].err
              /\ (writeErrors[i] # Nil) <=> (writePVs[i].Path \notin DOMAIN InitVars)
        /\ \A j \in 1..Len(readPaths) :
              /\ j <= Len(readResults)
              /\ readResults[j].Error = ReadCalls[j].err
              /\ (readResults[j].Error # Nil) <=> (readPaths[j] \notin DOMAIN InitVars)
        /\ (exgPc \in {"replied", "received"} => exgResp.code = StatusOK)

\* the first write and the first read of a batch failed, the second write
\* and the second read succeeded, and the batch was answered
C3_Witness ==
    /\ exgPc = "replied"
    /\ Len(writePVs) = 2 /\ Len(readPaths) = 2
    /\ writeErrors[1] # Nil /\ writeErrors[2] = Nil
    /\ readResults[1].Error # Nil /\ readResults[2].Error = Nil
    /\ vars[writePVs[2].Path] = writePVs[2].PV

\* C4 as claimed: a read returns the PV of any successful write of the
\* batch to its path.
C4_ReadObservesAnyWrite ==
    ExgReturned =>
        \A i \in 1..Len(writePVs), j \in 1..Len(readPaths) :
            (writeErrors[i] = Nil /\ writePVs[i].Path = readPaths[j]) =>
                (readResults[j].Error = Nil /\ readResults[j].PV = writePVs[i].PV)

\* write i is the last successful write of the batch to its path
LastWriteTo(i) ==
    /\ writeErrors[i] = Nil
    /\ \A k \in (i + 1)..Len(writePVs) :
          ~(writeErrors[k] = Nil /\ writePVs[k].Path = writePVs[i].Path)

\* C4: when ExgData has returned, a read of a path returns the PV of the
\* last successful write of the batch to that path.
C4_ReadObservesLastWrite ==
    ExgReturned =>
        \A i \in 1..Len(writePVs), j \in 1..Len(readPaths) :
            (LastWriteTo(i) /\ writePVs[i].Path = readPaths[j]) =>
                (readResults[j].Error = Nil /\ readResults[j].PV = writePVs[i].PV)

\* two writes of different PVs to one path succeeded, and the path was read
C4_Witness ==
    /\ exgPc = "returned"
    /\ Len(writePVs) = 2 /\ Len(readPaths) >= 1
    /\ writePVs[1].Path = writePVs[2].Path
    /\ writePVs[1].PV # writePVs[2].PV
    /\ writeErrors[1] = Nil /\ writeErrors[2] = Nil
    /\ readPaths[1] = writePVs[1].Path
    /\ readResults[1].PV = writePVs[2].PV

(***************************************************************************)
(* Claims about the codec.                                                 *)
(***************************************************************************)
\* C5 as claimed: every PV on a millisecond boundary, the epoch included,
\* comes back from WireToPV(PVToWire(pv)) unchanged.
C5_RoundTripAnyWholeMs ==
    (codecOp = "RoundTripPV" /\ IsWholeMs(codecIn.pv.Time)) =>
        codecOut.pv = codecIn.pv

\* C5: a PV on a millisecond boundary, in the range of UnixNano and other
\* than the epoch, comes back from WireToPV(PVToWire(pv)) with the same
\* time, value and state, before the epoch as after it; a PV at the epoch
\* is encoded with ts = 0 and comes back with the time of the decoding.
C5_RoundTripPV ==
    (codecOp = "RoundTripPV" /\ IsWholeMs(codecIn.pv.Time)
        /\ InUnixNanoRange(codecIn.pv.Time)) =>
        /\ codecOut.pv.Value = codecIn.pv.Value
        /\ codecOut.pv.State = codecIn.pv.State
        /\ codecIn.pv.Time # 0 => codecOut.pv.Time = codecIn.pv.Time
        /\ codecIn.pv.Time = 0 => codecOut.wire.ts = 0 /\ codecOut.pv.Time = codecIn.now

\* a PV a whole number of milliseconds before the epoch came back unchanged
C5_Witness ==
    /\ codecOp = "RoundTripPV"
    /\ codecIn.pv.Time = -2 * NanosPerMilli
    /\ codecIn.pv.State = 100
    /\ codecOut.wire.ts = -2
    /\ codecOut.pv = codecIn.pv

\* every time of the history is on a millisecond boundary
HistWholeMs(hist) == \A i \in 1..Len(hist) : IsWholeMs(hist[i].Time)

\* C6 as claimed: every history with times on millisecond boundaries comes
\* back from WireToHist(HistToWire(h)) unchanged.
C6_RoundTripAnyWholeMs ==
    (codecOp = "RoundTripHist" /\ HistWholeMs(codecIn.hist)) =>
        (codecOut.res.err = Nil /\ codecOut.res.hist = codecIn.hist)

\* C6: for every history, the empty one included, whose times are on
\* millisecond boundaries in the range of UnixNano (the epoch included),
\* WireToHist(HistToWire(h)) succeeds and returns as many PVs, with the same
\* time, value and state at every position.
C6_RoundTripHist ==
    (codecOp = "RoundTripHist" /\ HistWholeMs(codecIn.hist)
        /\ \A i \in 1..Len(codecIn.hist) : InUnixNanoRange(codecIn.hist[i].Time)) =>
        /\ codecOut.res.err = Nil
        /\ Len(codecOut.res.hist) = Len(codecIn.hist)
        /\ \A i \in 1..Len(codecIn.hist) : codecOut.res.hist[i] = codecIn.hist[i]

\* a history of two different PVs, the first at the epoch and the second
\* before it, came back unchanged
C6_Witness ==
    /\ codecOp = "RoundTripHist"
    /\ Len(codecIn.hist) = 2
    /\ codecIn.hist[1].Time = 0
    /\ codecIn.hist[2].Time = -NanosPerMilli
    /\ codecOut.res.err = Nil
    /\ codecOut.res.hist = codecIn.hist

\* the payload is a JSON text
ValidJson(p) == JsonUnmarshal(p).err = Nil

\* C8 as claimed: fuzzy decoding never fails and the value is the parsed
\* JSON structure of the payload or the payload as a string.
C8_FuzzyParsedOrString ==
    (codecOp = "BytesToPV" /\ codecIn.fuzzy) =>
        /\ codecOut.err = Nil
        /\ \/ codecOut.pv.Value = JsonString(codecIn.payload)
           \/ ValidJson(codecIn.payload)
                /\ codecOut.pv.Value = JsonUnmarshal(codecIn.payload).v

\* C8: fuzzy decoding never fails; the value is the v member of the wire PV
\* (null without one) when strict decoding accepts the payload, else the
\* parsed JSON structure of the payload when it is a JSON text, else the
\* payload as a string.
C8_FuzzyNeverFails ==
    (codecOp = "BytesToPV" /\ codecIn.fuzzy) =>
        /\ codecOut.err = Nil
        /\ codecOut.pv.Value =
              IF BytesToPV(codecIn.payload, FALSE, codecIn.now).err = Nil
              THEN (IF ScanValue(codecIn.payload).member = <<"m">>
                    THEN JsonOne ELSE JsonNull)
              ELSE IF ValidJson(codecIn.payload)
              THEN JsonMap(ScanValue(codecIn.payload).member)
              ELSE JsonString(codecIn.payload)

\* a payload that is no JSON text was decoded in fuzzy mode to a string
C8_Witness ==
    /\ codecOp = "BytesToPV"
    /\ codecIn.fuzzy
    /\ codecIn.payload = <<"{", "x">>
    /\ codecOut.err = Nil
    /\ codecOut.pv.Value = JsonString(<<"{", "x">>)
    /\ codecOut.pv.Time = codecIn.now

\* the payload is a wire PV object followed by content that is not white space
TrailingContent(p) ==
    /\ ScanValue(p).ok
    /\ ScanValue(p).member # <<"q">>
    /\ NonSpace(SubSeq(p, ScanValue(p).end + 1, Len(p)))

\* the payload is an object with a member that is no field of WirePV
UnknownField(p) == ScanValue(p).ok /\ ScanValue(p).member = <<"q">>

\* C9: strict decoding returns an error for every payload that is a wire PV
\* object followed by content that is not white space, however much white
\* space lies between them, and for every object with an unknown field.
C9_StrictRejectsTrailing ==
    (codecOp = "BytesToPV" /\ ~codecIn.fuzzy
        /\ (TrailingContent(codecIn.payload) \/ UnknownField(codecIn.payload))) =>
        codecOut.err # Nil

(***************************************************************************)
(* Claims on the handler (SpecHttp).                                       *)
(***************************************************************************)
\* ServeHTTP has served a request that passed the prefix and the size check
Passed ==
    /\ request # Nil
    /\ HasPrefix(request.Path, handler.URLPrefix)
    /\ BodyLen(request.Body) <= requestSizeLimit(handler)

\* the path of the request behind the prefix
FullPath == TrimPrefix(request.Path, handler.URLPrefix)

\* the request put a history: its body was the JSON of the WireHist
\* PutHistory.w
PutHistory == UnmarshalWireHist(request.Body)
IsPutHistory ==
    /\ Passed
    /\ request.Method = "PUT"
    /\ Base(FullPath) = <<HistMarker>>
    /\ PutHistory.err = Nil

\* the three arrays of the WireHist have the same length
SameLengths(w) == Len(w.Times) = Len(w.Values) /\ Len(w.Values) = Len(w.States)

\* C7: a PUT of a history whose ts, v and s arrays do not all have the same
\* length is answered with BadRequest (400) and WriteHistory is not called;
\* when the three lengths agree, zero included, WireToHist succeeds and
\* WriteHistory gets exactly that many PVs.
C7_HistLengths ==
    IsPutHistory =>
        IF SameLengths(PutHistory.w)
        THEN /\ Len(backend) = 1
             /\ backend[1].op = "WriteHistory"
             /\ Len(backend[1].arg.hist) = Len(PutHistory.w.Times)
             /\ backend[1].err = Nil => response.code = StatusOK
        ELSE /\ backend = <<>>
             /\ response.code = StatusBadRequest

\* a history with as many values as timestamps and fewer states was refused
C7_Witness ==
    /\ IsPutHistory
    /\ Len(PutHistory.w.Times) = MaxHist
    /\ Len(PutHistory.w.Values) = MaxHist
    /\ Len(PutHistory.w.States) = MaxHist - 1
    /\ backend = <<>>
    /\ response.code = StatusBadRequest

\* an entry of the dispatch table: the service operations it selects, or
\* the status of the refusal
Select(ops)  == [ops |-> ops, code |-> StatusOK]
Refuse(code) == [ops |-> {}, code |-> code]

\* the dispatch table: what the final segment seg of the path and the
\* method select, the service operations or the status of the refusal;
\* root tells that the path is the marker directly under the root
TableEntry(seg, method, root) ==
    IF seg = <<PVMarker>>
    THEN IF method = "GET" THEN Select({"ReadPV", "WritePV"})
         ELSE IF method = "PUT" THEN Select({"WritePV"})
         ELSE Refuse(StatusMethodNotAllowed)
    ELSE IF seg = <<HistMarker>>
    THEN IF method = "GET" THEN Select({"ReadHistory"})
         ELSE IF method = "PUT" THEN Select({"WriteHistory"})
         ELSE Refuse(StatusMethodNotAllowed)
    ELSE IF seg = <<ExgDataMarker>>
    THEN IF method # "PUT" THEN Refuse(StatusMethodNotAllowed)
         ELSE IF root THEN Select({"ExgData"}) ELSE Refuse(StatusNotFound)
    ELSE IF seg = <<QueryMarker>>
    THEN IF method # "GET" THEN Refuse(StatusMethodNotAllowed)
         ELSE IF root THEN Select({"Query"}) ELSE Refuse(StatusNotFound)
    ELSE IF method = "GET" THEN Select({"ReadProperties"})
    ELSE IF method = "PUT" THEN Select({"WriteProperties"})
    ELSE IF method = "DELETE" THEN Select({"Delete"})
    ELSE Refuse(StatusMethodNotAllowed)

\* the service operation a serve function calls
OperationOf(act) ==
    CASE act = "servePV"            -> "ReadPV"
      [] act = "serveSetPV"         -> "WritePV"
      [] act = "serveHistory"       -> "ReadHistory"
      [] act = "serveSetHistory"    -> "WriteHistory"
      [] act = "serveExgData"       -> "ExgData"
      [] act = "serveQuery"         -> "Query"
      [] act = "serveProperties"    -> "ReadProperties"
      [] act = "serveSetProperties" -> "WriteProperties"
      [] act = "serveDelete"        -> "Delete"
      [] OTHER                      -> "none"

\* the entry of the dispatch table for the request served
Entry ==
    TableEntry(Base(FullPath), request.Method, FullPath = <<Slash, Base(FullPath)[1]>>)

\* C10: for every request that passes the prefix and the size check, the
\* final path segment and the method select the action as the dispatch
\* table says: the serve function of the operation is the one selected and
\* no other operation of the service is called; a method or a path the
\* table refuses is answered 405 or 404 without a call; WriteProperties
\* without error is answered 201 when it created the object and 200 when
\* not, and no other request is answered 201.
C10_DispatchTable ==
    Passed =>
        IF Entry.ops = {}
        THEN /\ response.code = Entry.code
             /\ action = "errorResponse"
             /\ backend = <<>>
        ELSE /\ OperationOf(action) \in Entry.ops
             /\ Len(backend) <= 1
             /\ \A i \in 1..Len(backend) : backend[i].op = OperationOf(action)
             /\ \A i \in 1..Len(backend) :
                    (backend[i].op = "WriteProperties" /\ backend[i].err = Nil) =>
                        response.code = IF backend[i].created THEN StatusCreated ELSE StatusOK
             /\ response.code = StatusCreated =>
                    /\ Len(backend) = 1
                    /\ backend[1].op = "WriteProperties"
                    /\ backend[1].created

\* a PUT of ~exgdata below the root was answered 404
C10_Witness ==
    /\ Passed
    /\ request.Method = "PUT"
    /\ Base(FullPath) = <<ExgDataMarker>>
    /\ Len(FullPath) > 2
    /\ response.code = StatusNotFound
    /\ backend = <<>>

\* the request was a GET on a ~pv path
IsGetPV ==
    /\ Passed
    /\ request.Method = "GET"
    /\ Base(FullPath) = <<PVMarker>>

\* C11: a GET on a ~pv path whose URL carries the writepv parameter, with
\* any value, the empty string included, results in a WritePV of the
\* fuzzily decoded value; ReadPV is called only when the URL carries no
\* writepv parameter.
C11_WritePVWhenPresent ==
    IsGetPV =>
        IF request.Query.writepv # <<>>
        THEN /\ Len(backend) = 1
             /\ backend[1].op = "WritePV"
             /\ \E now \in Clock :
                    backend[1].arg.pv = BytesToPV(request.Query.writepv[1], TRUE, now).pv
        ELSE /\ Len(backend) = 1
             /\ backend[1].op = "ReadPV"

\* the configured cap of the request body: RequestSizeLimit, 1 MiB when it
\* is 0
ConfiguredCap ==
    IF handler.RequestSizeLimit = 0 THEN 1024 * 1024 ELSE handler.RequestSizeLimit

\* the response to a request whose body could not be received
ReceivingFailed ==
    /\ action = "errorResponse"
    /\ response.code = StatusBadRequest
    /\ response.body.message = <<"Receiving of request failed">>

\* C12: a request whose path matches the prefix and whose body is longer
\* than the configured cap is answered 400 "Receiving of request failed",
\* whatever its method and path, and no service operation is called; a
\* body of at most the cap, one of exactly cap bytes included, is accepted
\* and dispatched.
C12_RequestSizeCap ==
    (request # Nil /\ HasPrefix(request.Path, handler.URLPrefix)) =>
        IF BodyLen(request.Body) > ConfiguredCap
        THEN ReceivingFailed /\ backend = <<>>
        ELSE ~ReceivingFailed

\* a body one byte longer than the default cap was refused
C12_Witness ==
    /\ request # Nil
    /\ HasPrefix(request.Path, handler.URLPrefix)
    /\ handler.RequestSizeLimit = 0
    /\ BodyLen(request.Body) = ConfiguredCap + 1
    /\ ReceivingFailed

\* the request was a GET of a history that reached the service
IsReadHistory ==
    /\ Passed
    /\ request.Method = "GET"
    /\ Base(FullPath) = <<HistMarker>>
    /\ Len(backend) = 1
    /\ backend[1].op = "ReadHistory"

\* the cap of the server on the entries of a history: HistorySizeLimit,
\* 10000 when it is 0
ConfiguredHistoryCap ==
    IF handler.HistorySizeLimit = 0 THEN 10000 ELSE handler.HistorySizeLimit

\* C13: for every history GET that reaches the service, the limit passed
\* to ReadHistory is a positive integer no greater than the cap of the
\* server: the cap when the request has no limit parameter or one above
\* the cap, the requested value otherwise.
C13_LimitPositiveClamped ==
    IsReadHistory =>
        /\ backend[1].arg.limit > 0
        /\ backend[1].arg.limit <= ConfiguredHistoryCap
        /\ backend[1].arg.limit =
              IF request.Query.limit = <<>> THEN ConfiguredHistoryCap
              ELSE IF request.Query.limit[1].n > ConfiguredHistoryCap THEN ConfiguredHistoryCap
              ELSE request.Query.limit[1].n

\* the request reached the service and the operation returned a veap.Error
ServiceFailed ==
    /\ Passed
    /\ Len(backend) = 1
    /\ backend[1].err # Nil

\* the request reached the service, the operation returned no error and
\* values that json.Marshal cannot encode for the response: the failure
\* is an error of fmt.Errorf, no veap.Error
MarshalFailed ==
    /\ Passed
    /\ Len(backend) = 1
    /\ backend[1].err = Nil
    /\ ~backend[1].encodable
    /\ \/ backend[1].op \in {"ReadHistory", "ReadProperties"}
       \/ backend[1].op = "ReadPV" /\ Get(request.Query.format, "") # "simple"

\* C14: when the dispatched service operation returns a veap.Error with
\* code c and message m, the response has status c, content type
\* application/json and the body {"message": m}; when the failure is an
\* error that is no veap.Error, the status is 500.
C14_ErrorMapping ==
    /\ ServiceFailed =>
          response = [code        |-> backend[1].err.code,
                      contentType |-> "application/json",
                      body        |-> [message |-> backend[1].err.msg]]
    /\ MarshalFailed =>
          /\ response.code = StatusInternalServerError
          /\ response.contentType = "application/json"

\* a ReadPV that the service refused was answered with the status and the
\* message of its error
C14_Witness ==
    /\ ServiceFailed
    /\ backend[1].op = "ReadPV"
    /\ response.code = StatusForbidden
    /\ response.body = [message |-> <<"Forbidden">>]

(***************************************************************************)
(* Claims on the statistics (SpecStats).                                   *)
(***************************************************************************)
\* the requests that have entered ServeHTTP
Entered == {g \in Goroutines : serving[g].pc # "idle"}

\* the requests that have left ServeHTTP, and those of them that ended on
\* an error path
Finished == {g \in Goroutines : serving[g].pc = "done"}
FinishedOnError == {g \in Finished : serving[g].failed}

\* the bytes of the request bodies that the goroutines 1..n have read
RECURSIVE BytesRead(_)
BytesRead(n) == IF n = 0 THEN 0 ELSE serving[n].read + BytesRead(n - 1)

\* the bytes of the response bodies of the finished requests among 1..n
RECURSIVE BytesSent(_)
BytesSent(n) ==
    IF n = 0 THEN 0
    ELSE (IF n \in Finished THEN serving[n].respLen ELSE 0) + BytesSent(n - 1)

\* C15: in every interleaving of the requests no increment is lost: the
\* Requests counter is the number of the requests that have entered
\* ServeHTTP and RequestBytes the sum of the lengths of the bodies read;
\* and none of the four counters ever decreases.
C15_CountersExact ==
    /\ [](stats.Requests = Cardinality(Entered) /\ stats.RequestBytes = BytesRead(MaxRequests))
    /\ [][/\ stats'.Requests >= stats.Requests
          /\ stats'.RequestBytes >= stats.RequestBytes
          /\ stats'.ResponseBytes >= stats.ResponseBytes
          /\ stats'.ErrorResponses >= stats.ErrorResponses]_allVars

\* all goroutines have read a body of the largest length accepted and are
\* in ServeHTTP at the same time
C15_Witness ==
    /\ \A g \in Goroutines : serving[g].pc = "received" /\ serving[g].read = MaxLen - 1
    /\ stats.Requests = MaxRequests
    /\ stats.RequestBytes = MaxRequests * (MaxLen - 1)

\* C16: every request that ends on an error path adds one to
\* ErrorResponses and the length of the error body to ResponseBytes, every
\* request that ends successfully adds the length of its body to
\* ResponseBytes and nothing to ErrorResponses, also when the connection
\* does not take the response: once all requests have left ServeHTTP,
\* ErrorResponses is the number of the requests that ended on an error
\* path and ResponseBytes the sum of the lengths of all response bodies.
C16_ResponseAccounting ==
    Finished = Goroutines =>
        /\ stats.ErrorResponses = Cardinality(FinishedOnError)
        /\ stats.ResponseBytes = BytesSent(MaxRequests)


(***************************************************************************)
(* Claims on BasicMetaService (SpecMeta).                                  *)
(***************************************************************************)
ReadsProperties == metaOp = "ReadProperties"
Queried == metaOp = "Query"

\* C17: BasicMetaService.ReadProperties on the path "/", when the backend
\* returns no error, returns the backend's attributes unchanged and the
\* backend's links followed by exactly two links of role ~service, the
\* first with target ~exgdata and the second with target ~query; on every
\* other path, and whenever the backend returns an error, attributes, links
\* and error are the backend's.
C17_RootServiceLinks ==
    ReadsProperties =>
        IF metaIn.path = <<Slash>> /\ metaIn.backend.err = Nil
        THEN /\ metaOut.attr = metaIn.backend.attr
             /\ metaOut.err = Nil
             /\ Len(metaOut.links) = Len(metaIn.backend.links) + 2
             /\ SubSeq(metaOut.links, 1, Len(metaIn.backend.links)) = metaIn.backend.links
             /\ metaOut.links[Len(metaIn.backend.links) + 1].Role = "~service"
             /\ metaOut.links[Len(metaIn.backend.links) + 1].Target = <<"~exgdata">>
             /\ metaOut.links[Len(metaIn.backend.links) + 2].Role = "~service"
             /\ metaOut.links[Len(metaIn.backend.links) + 2].Target = <<"~query">>
        ELSE metaOut = metaIn.backend

C17_Witness ==
    /\ ReadsProperties
    /\ metaIn.path = <<Slash>>
    /\ metaIn.backend.err = Nil
    /\ Len(metaIn.backend.links) = 2
    /\ Len(metaOut.links) = 4


\* a pattern with a segment that is no glob or has an invalid escape
Malformed(pathPattern) ==
    \E i \in 1..Len(pathPattern) : pathPattern[i] \in {"[", "%zz"}
AnyMalformed == \E i \in 1..Len(metaIn.pathPatterns) : Malformed(metaIn.pathPatterns[i])

\* the paths of the results
Paths(results) == [i \in 1..Len(results) |-> results[i].Path]

\* C18: a Query in which any pattern has a malformed segment (an invalid
\* bracket expression or an invalid percent-escape), at any segment position
\* and for any object tree, fails with BadRequest (400) and returns no
\* results.
C18_MalformedPatternFails ==
    Queried /\ AnyMalformed =>
        /\ metaOut.err # Nil
        /\ metaOut.err.code = 400
        /\ metaOut.results = <<>>

\* C19: Query does not fail because a path does not exist: a pattern that
\* names no object, and a link whose target the backend reports as not
\* found, give no result and no error, and the other matches are returned.
C19_MissingPathsNoError ==
    Queried /\ ~AnyMalformed =>
        /\ metaOut.err = Nil
        /\ metaIn.tree = DanglingTree =>
            Paths(metaOut.results) = Paths(Query(FullTree, metaIn.pathPatterns).results)

\* the segments of a pattern, its optional leading slash apart
PatternSegments(pathPattern) ==
    IF TrimPrefix(pathPattern, <<Slash>>) = <<>> THEN <<>>
    ELSE Elements(TrimPrefix(pathPattern, <<Slash>>))

\* the identifiers of an object path
Identifiers(p) == IF p = <<Slash>> THEN <<>> ELSE Elements(Tail(p))

\* the child of p with the identifier ident
ChildOf(p, ident) == IF p = <<Slash>> THEN <<Slash, ident>> ELSE p \o <<Slash, ident>>

\* the children an object links to, in the order of its links
RECURSIVE LinkedChildren(_, _, _)
LinkedChildren(t, p, links) ==
    IF links = <<>> THEN <<>>
    ELSE (IF \E q \in DOMAIN t \ {<<Slash>>} :
                /\ q = ChildOf(p, q[Len(q)])
                /\ Head(links).Target \in {q, <<q[Len(q)]>>}
          THEN <<ChildOf(p, Head(links).Target[Len(Head(links).Target)])>>
          ELSE <<>>)
         \o LinkedChildren(t, p, Tail(links))

\* the objects from p downwards, depth first in link order
RECURSIVE DepthFirst(_, _)
RECURSIVE DepthFirstAll(_, _)
DepthFirstAll(t, children) ==
    IF children = <<>> THEN <<>>
    ELSE DepthFirst(t, Head(children)) \o DepthFirstAll(t, Tail(children))

DepthFirst(t, p) == <<p>> \o DepthFirstAll(t, LinkedChildren(t, p, t[p].links))

\* the object has as many identifiers as the pattern has segments, and each
\* decoded identifier matches its segment
SegmentsMatch(segments, identifiers) ==
    /\ Len(segments) = Len(identifiers)
    /\ \A i \in 1..Len(segments) :
        Match(PathUnescape(segments[i]).s, PathUnescape(identifiers[i]).s).matched

MatchesPattern(pathPattern, p) == SegmentsMatch(PatternSegments(pathPattern), Identifiers(p))

\* the objects of t that match the pattern, depth first in link order
RECURSIVE Matching(_, _)
Matching(pathPattern, objects) ==
    IF objects = <<>> THEN <<>>
    ELSE (IF MatchesPattern(pathPattern, Head(objects)) THEN <<Head(objects)>> ELSE <<>>)
         \o Matching(pathPattern, Tail(objects))

\* the matching objects of all patterns, one pattern after the other
RECURSIVE MatchingAll(_, _)
MatchingAll(t, pathPatterns) ==
    IF pathPatterns = <<>> THEN <<>>
    ELSE Matching(Head(pathPatterns), DepthFirst(t, <<Slash>>))
         \o MatchingAll(t, Tail(pathPatterns))

RECURSIVE MostSegments(_)
MostSegments(pathPatterns) ==
    IF pathPatterns = <<>> THEN 0
    ELSE Max(Len(PatternSegments(Head(pathPatterns))), MostSegments(Tail(pathPatterns)))

\* C25: the traversal of Query returns for every pattern and every link
\* graph, graphs with cycles included (an object that links to itself or
\* back to an ancestor), and the calls of traverseTree are never nested
\* deeper than the number of segments of the pattern plus one.
C25_DepthBounded ==
    Queried =>
        /\ metaOut.depth <= MostSegments(metaIn.pathPatterns) + 1
        /\ metaOut.depth <= MaxPatternSegs + 1

C25_Witness ==
    /\ Queried
    /\ metaIn.tree = CyclicTree
    /\ metaIn.pathPatterns = <<<<"%2F", Slash, "%2F">>>>
    /\ metaOut.err = Nil
    /\ Paths(metaOut.results) = <<<<Slash>>, <<Slash>>, <<Slash>>, <<Slash>>>>
    /\ metaOut.depth = 3

ChildPathsCalled == metaOp = "childPaths"

\* the target of the link, resolved against the object it is a link of
Resolved(objPath, link) ==
    IF link.Target[1] = "/" THEN link.Target ELSE Clean(objPath \o <<Slash>> \o link.Target)

\* the resolved targets of the links of another role than ~service whose
\* parent path is the object, in link order
RECURSIVE ChildTargets(_, _)
ChildTargets(objPath, links) ==
    IF links = <<>> THEN <<>>
    ELSE (IF /\ Head(links).Role # "~service"
             /\ Dir(Resolved(objPath, Head(links))) = objPath
          THEN <<Resolved(objPath, Head(links))>>
          ELSE <<>>)
         \o ChildTargets(objPath, Tail(links))

\* q is the path of a direct child of p: the identifiers of p and one more
IsDirectChild(p, q) ==
    /\ Len(Identifiers(Clean(q))) = Len(Identifiers(p)) + 1
    /\ SubSeq(Identifiers(Clean(q)), 1, Len(Identifiers(p))) = Identifiers(p)

\* C26: childPaths(p, links) returns, in link order and without
\* deduplication, exactly the resolved targets of the links whose role is
\* not ~service and whose parent path is p; every path returned is a direct
\* child of p, never p itself, an ancestor or a deeper descendant, for every
\* p, the root included.
C26_DirectChildren ==
    ChildPathsCalled =>
        /\ metaOut = ChildTargets(metaIn.objPath, metaIn.links)
        /\ \A i \in 1..Len(metaOut) : IsDirectChild(metaIn.objPath, metaOut[i])

(***************************************************************************)
(* Claims on the emitted properties and on the paths handed to the         *)
(* service (SpecHttp).                                                     *)
(***************************************************************************)
\* the link is emitted as wire: the prefix before a target that begins with
\* a slash, any other target as it is
Emitted(link, wire) ==
    /\ wire.rel = link.Role
    /\ wire.title = link.Title
    /\ wire.href = IF link.Target # <<>> /\ link.Target[1] = "/"
                   THEN handler.URLPrefix \o link.Target
                   ELSE link.Target

\* the JSON object has no ~links for no links, and else the links in their
\* order
LinksEmitted(links, object) ==
    IF links = <<>> THEN "~links" \notin DOMAIN object
    ELSE /\ "~links" \in DOMAIN object
         /\ Len(object["~links"]) = Len(links)
         /\ \A i \in 1..Len(links) : Emitted(links[i], object["~links"][i])

PropertiesServed == action = "serveProperties" /\ response.code = StatusOK
QueryServed == action = "serveQuery" /\ response.code = StatusOK

\* C21: in the JSON of ReadProperties and of Query every link target that
\* begins with "/" is emitted as URLPrefix followed by the target and every
\* relative target unchanged, in the order of the links; the ~path of each
\* query result is emitted with the URLPrefix before it; ~links is left out
\* for an object without links.
C21_LinkTargets ==
    /\ PropertiesServed => LinksEmitted(backend[1].links, response.body)
    /\ QueryServed =>
        /\ Len(response.body) = Len(backend[1].arg.paths)
        /\ \A i \in 1..Len(response.body) :
            /\ LinksEmitted(backend[1].links, response.body[i])
            /\ response.body[i]["~path"] =
                handler.URLPrefix \o ServiceQuery(backend[1].arg.paths, backend[1])[i].Path

C21_Witness ==
    /\ QueryServed
    /\ handler.URLPrefix = <<Slash, "p">>
    /\ backend[1].links = ServiceLinks
    /\ Len(response.body) = 1
    /\ response.body[1]["~path"] = <<Slash, "p", Slash>>
    /\ response.body[1]["~links"][1].href = <<"b">>
    /\ response.body[1]["~links"][2].href = <<Slash, "p", Slash, "a">>


\* the request is a PUT of /~exgdata or a GET of /~query that got to the
\* dispatch
IsMetaRequest ==
    /\ Passed
    /\ \/ request.Method = "PUT" /\ FullPath = <<Slash, ExgDataMarker>>
       \/ request.Method = "GET" /\ FullPath = <<Slash, QueryMarker>>

\* the handler, were its service a MetaService
OverMetaService == [handler EXCEPT !.MetaService = TRUE]

\* C22: a handler whose service provides MetaService delegates ExgData and
\* Query to it; a handler whose service does not answers PUT /~exgdata and
\* GET /~query as the default implementation over that service would.
C22_MetaFallback ==
    IsMetaRequest =>
        IF handler.MetaService
        THEN \A i \in 1..Len(backend) : backend[i].op \in {"ExgData", "Query"}
        ELSE \E now \in Clock, res \in ServiceResults :
                response = HandlerServeHTTP(OverMetaService, request, now, res).response


\* the request ends on ~pv or ~hist and got to the service
IsMarkerRequest ==
    /\ Passed
    /\ Base(FullPath) \in {<<PVMarker>>, <<HistMarker>>}
    /\ Len(backend) = 1

\* the request got to ReadProperties, WriteProperties or Delete
IsObjectRequest ==
    /\ Passed
    /\ Len(backend) = 1
    /\ backend[1].op \in {"ReadProperties", "WriteProperties", "Delete"}

\* the path without its final segment and the slashes around it; the root
\* when no segment is left
WithoutFinalSegment(p) ==
    IF SubSeq(StripSlashes(p), 1, LastSlash(StripSlashes(p)) - 1) = <<>> THEN <<Slash>>
    ELSE SubSeq(StripSlashes(p), 1, LastSlash(StripSlashes(p)) - 1)

\* C27: for a request whose final path segment is ~pv or ~hist the path
\* handed to the service is the path of the request behind the prefix, in
\* escaped form, without that final segment, also when the URL ends with a
\* slash; ReadProperties, WriteProperties and Delete get the escaped path
\* unchanged.
C27_ServicePath ==
    /\ IsMarkerRequest => backend[1].path = WithoutFinalSegment(FullPath)
    /\ IsObjectRequest => backend[1].path = FullPath

(***************************************************************************)
(* Claims on the Client (SpecClient).                                      *)
(***************************************************************************)
ClientReceived == clientOp \in ReadingOps \cup WritingOps

\* the status of the response is none the operation accepts
NonOK ==
    /\ clientIn.resp.StatusCode # 200
    /\ ~(clientOp = "WriteProperties" /\ clientIn.resp.StatusCode = 201)

\* the operation returned an Error with the status as its code and the
\* body of the response in its message
StatusAndBody ==
    /\ clientOut.err # Nil
    /\ clientOut.err.code = clientIn.resp.StatusCode
    /\ Len(clientOut.err.msg) = 3
    /\ clientOut.err.msg[3] = clientIn.resp.Body

\* C23: for every operation of the client a response with a non-OK status
\* (for WriteProperties: neither 200 nor 201) yields an Error whose code is
\* that status and whose message contains the body of the response,
\* whatever the size of the body; WriteProperties returns created = true
\* exactly when the status is 201.
C23_StatusToError ==
    ClientReceived =>
        /\ NonOK => StatusAndBody
        /\ clientOp = "WriteProperties" =>
            (clientOut.created <=> clientIn.resp.StatusCode = 201)


\* the smallest count of whole milliseconds that is not before the instant
CeilMs(t) == -((-t) \div NanosPerMilli)

HistoryURLBuilt == clientOp = "ReadHistoryURL"

\* the next whole millisecond of the instant is in the range of
\* Time.UnixNano
NextMsInRange(t) == InUnixNanoRange(CeilMs(t) * NanosPerMilli)

\* C24: Client.ReadHistory sends begin and end as the smallest whole
\* millisecond count that is not before the given instant, when the next
\* whole millisecond of the instant is in the range of Time.UnixNano: an
\* instant on a millisecond boundary is sent unchanged and any other as the
\* next millisecond, before and after the Unix epoch.
C24_NextMillisecond ==
    HistoryURLBuilt =>
        /\ NextMsInRange(clientIn.begin) => clientOut.begin = CeilMs(clientIn.begin)
        /\ NextMsInRange(clientIn.end) => clientOut.end = CeilMs(clientIn.end)

\* C24 as stated, for every instant: begin and end are sent as the
\* smallest whole millisecond count that is not before the given instant.
C24_NextMillisecondAlways ==
    HistoryURLBuilt =>
        /\ clientOut.begin = CeilMs(clientIn.begin)
        /\ clientOut.end = CeilMs(clientIn.end)

C24_Witness ==
    /\ HistoryURLBuilt
    /\ clientIn.begin = -NanosPerMilli - 1
    /\ clientOut.begin = -1
    /\ clientIn.end = NanosPerMilli + 1
    /\ clientOut.end = 2

(***************************************************************************)
(* Claims on the decoded timestamps (SpecCodec).                           *)
(***************************************************************************)
\* the instant ts milliseconds after the Unix epoch
MsAfterEpoch(ts) == ts * NanosPerMilli

\* the timestamps of a decoded wire value with the instants decoded from them
DecodedTimes ==
    IF codecOp = "WireToPV" /\ codecIn.wire.ts # 0
    THEN {<<codecIn.wire.ts, codecOut.pv.Time>>}
    ELSE IF codecOp = "WireToHist" /\ codecOut.err = Nil
    THEN {<<codecIn.wire.Times[i], codecOut.hist[i].Time>> : i \in 1..Len(codecIn.wire.Times)}
    ELSE IF codecOp = "parseTimeParam" /\ codecOut.set
    THEN {<<codecIn.values[1].n, codecOut.t>>}
    ELSE {}

\* a wire PV without a timestamp was decoded
DecodedWithoutTime ==
    \/ codecOp = "WireToPV" /\ codecIn.wire.ts = 0
    \/ codecOp = "BytesToPV" /\ codecOut.err = Nil

\* C28: decoding maps every non-zero wire timestamp ts (WireToPV,
\* WireToHist, the begin / end parameters) to the instant exactly ts
\* milliseconds after the Unix epoch, without wrap-around for any value of
\* the machine integer, and WireToPV and BytesToPV replace a timestamp of 0
\* or a missing one by the current time.
C28_DecodedInstant ==
    /\ \A d \in DecodedTimes : d[1] # 0 => d[2] = MsAfterEpoch(d[1])
    /\ DecodedWithoutTime => codecOut.pv.Time = codecIn.now

\* the nanosecond count of the timestamp fits the machine integer
FitsUnixNano(ts) == InUnixNanoRange(MsAfterEpoch(ts))

\* C28 for the timestamps whose nanosecond count fits the machine integer
C28_DecodedInstantInRange ==
    /\ \A d \in DecodedTimes : d[1] # 0 /\ FitsUnixNano(d[1]) => d[2] = MsAfterEpoch(d[1])
    /\ DecodedWithoutTime => codecOut.pv.Time = codecIn.now

(***************************************************************************)
(* Claims on concurrent ExgData batches (SpecConc).                        *)
(***************************************************************************)
\* the backend calls of batch b, in the order they ran
CallsOf(b) == SelectSeq(concCalls, LAMBDA c : c.batch = b)

\* the calls are the WritePV calls of all of ws followed by ReadPV calls of
\* a prefix of rs, or WritePV calls of a prefix of ws alone
WritesThenReads(cs, ws, rs) ==
    /\ Len(cs) <= Len(ws) + Len(rs)
    /\ \A k \in 1..Len(cs) :
         IF k <= Len(ws)
         THEN cs[k].op = "WritePV" /\ cs[k].path = ws[k].Path /\ cs[k].pv = ws[k].PV
         ELSE cs[k].op = "ReadPV" /\ cs[k].path = rs[k - Len(ws)]

\* C29: the handler and BasicMetaService.ExgData do not serialize
\* concurrent batches, and the backend calls of two batches interleave;
\* within each batch the order still holds: all its writes are issued, in
\* the order of writePVs, before the first of its reads.
C29_WritesBeforeReadsPerBatch ==
    \A b \in Batches :
        WritesThenReads(CallsOf(b), concBatch[b].writePVs, concBatch[b].readPaths)

\* C29, the interleaving: a batch wrote p with success, the other batch
\* wrote p after that, and the read of p of the first batch returned the
\* value of the other
C29_Witness ==
    \E i, j, k \in DOMAIN concCalls :
        /\ i < j /\ j < k
        /\ concCalls[i].op = "WritePV" /\ concCalls[i].err = Nil
        /\ concCalls[j].op = "WritePV" /\ concCalls[j].err = Nil
        /\ concCalls[j].batch # concCalls[i].batch
        /\ concCalls[j].path = concCalls[i].path
        /\ concCalls[k].op = "ReadPV" /\ concCalls[k].batch = concCalls[i].batch
        /\ concCalls[k].path = concCalls[i].path
        /\ concCalls[k].pv = concCalls[j].pv
        /\ concCalls[k].pv # concCalls[i].pv
        /\ concBatch[concCalls[i].batch].readResults[1].PV = ConcPV(concCalls[j].batch)

(***************************************************************************)
(* Claims on the requests the handler refuses (SpecHttp).                  *)
(***************************************************************************)
\* the path of the request served does not start with the URL prefix
PrefixMismatch == request # Nil /\ ~HasPrefix(request.Path, handler.URLPrefix)

\* the path has the prefix and the body is longer than the cap
BodyOverCap ==
    /\ request # Nil
    /\ HasPrefix(request.Path, handler.URLPrefix)
    /\ BodyLen(request.Body) > ConfiguredCap

\* the dispatch table refuses the method or the path of the request
Refused == Passed /\ Entry.ops = {}

\* the values of a numeric parameter are more than one or no number
InvalidParam(values) == values # <<>> /\ (Len(values) # 1 \/ ~values[1].ok)

\* the begin / end / limit parameters of a history request are invalid
InvalidRange(q) ==
    \/ InvalidParam(q.begin)
    \/ InvalidParam(q.end)
    \/ (q.begin = <<>>) # (q.end = <<>>)
    \/ InvalidParam(q.limit)

\* the body of the request is not what the selected operation decodes
UndecodableBody ==
    \/ /\ request.Method = "PUT" /\ Entry.ops = {"WritePV"}
       /\ \A now \in Clock : BodyToPV(request.Body, FALSE, now).err # Nil
    \/ /\ Entry.ops = {"WriteHistory"}
       /\ (PutHistory.err # Nil \/ ~SameLengths(PutHistory.w))
    \/ Entry.ops = {"WriteProperties"} /\ UnmarshalAttr(request.Body) # Nil
    \/ Entry.ops = {"ExgData"} /\ UnmarshalWireExg(request.Body).err # Nil

\* the request passed the dispatch, and its body or its parameters cannot
\* be decoded
Undecodable ==
    /\ Passed
    /\ Entry.ops # {}
    /\ UndecodableBody \/ (Entry.ops = {"ReadHistory"} /\ InvalidRange(request.Query))

\* the request is for ExgData or Query
ForMetaService == Entry.ops \in {{"ExgData"}, {"Query"}}

\* the handler found nothing wrong with the request
Accepted == Passed /\ Entry.ops # {} /\ ~Undecodable

\* C30: a request that the handler rejects itself causes no call to any
\* operation of the service: a path without the URL prefix is answered
\* 404, whatever the body; with the prefix, a body over the cap is answered
\* 400, whatever method and marker; then a method that is not allowed is
\* answered 405 and ~exgdata / ~query below the root 404; then a body that
\* cannot be decoded or invalid begin / end / limit parameters are answered
\* 400.  Every accepted request other than ExgData and Query calls exactly
\* one operation of the service.
C30_RejectedWithoutCall ==
    /\ PrefixMismatch => (response.code = StatusNotFound /\ backend = <<>>)
    /\ BodyOverCap => (response.code = StatusBadRequest /\ backend = <<>>)
    /\ Refused =>
          /\ response.code = Entry.code
          /\ Entry.code \in {StatusMethodNotAllowed, StatusNotFound}
          /\ backend = <<>>
    /\ Undecodable => (response.code = StatusBadRequest /\ backend = <<>>)
    /\ (Accepted /\ ~ForMetaService) =>
          (Len(backend) = 1 /\ backend[1].op \in Entry.ops)

\* a request without the prefix whose body is over the cap, with a method
\* that its marker does not allow, was answered 404 without a call
C30_Witness ==
    /\ PrefixMismatch
    /\ BodyLen(request.Body) > ConfiguredCap
    /\ request.Method = "PUT"
    /\ Base(request.Path) = <<QueryMarker>>
    /\ response.code = StatusNotFound
    /\ backend = <<>>

====
